---- MODULE Spec2Model ----
(***************************************************************************)
(* Car-manager: the persistence layer (CarStorage / LogStorage over an     *)
(* IndexedDB object store with a localStorage fallback, src/utils.js) and  *)
(* the record reconciliation of the car manager (migration, quick-add,     *)
(* import, edit/save/delete; the script embedded in src/DEPLOY.md).        *)
(*                                                                         *)
(* Values.  An optional field is <<>> when absent (undefined) and <<v>>    *)
(* when present.  A string is a sequence of one-character strings, so      *)
(* that normalisation is computed character by character.  An identifier   *)
(* is a tagged pair: <<"u",0>> undefined, <<"n",k>> the number k (k >= 1), *)
(* <<"s",k>> the decimal string of k, <<"t",0>> a non-numeric string,      *)
(* <<"nan",0>> NaN.  Time is a counter, read by Date.now() and by          *)
(* new Date().toISOString().                                               *)
(***************************************************************************)
EXTENDS Integers, Sequences, FiniteSets, TLC

\* ------------------------------------------------------------------ bounds
MaxTime == 2        \* the clock runs 0..MaxTime
MaxOps == 3         \* store operations issued by the store-level caller
MaxCars == 2        \* records in the collection before the migration
MaxLogs == 3        \* legacy log entries before the migration

\* Date.now() is an epoch value in milliseconds, far above every key the key
\* generator hands out in a session; TimeBase keeps the two ranges apart.
TimeBase == 100

\* --------------------------------------------------------------- JS values
None == <<>>
Some(v) == <<v>>
Has(o) == o # <<>>
Val(o) == o[1]

Undef == <<"u", 0>>
Num(k) == <<"n", k>>
Str(k) == <<"s", k>>
Txt == <<"t", 0>>
NaN == <<"nan", 0>>

\* JS truthiness of an identifier: undefined and NaN are falsy; the numbers
\* of the model are >= 1 and its strings are non-empty.
Truthy(id) == id[1] \in {"n", "s", "t"}

\* parseInt(id, 10)
ParseInt(id) ==
    IF id[1] \in {"n", "s"} THEN Num(id[2]) ELSE NaN

\* String(id)
StringOf(id) ==
    IF id[1] \in {"n", "s"} THEN Str(id[2])
    ELSE IF id[1] = "u" THEN <<"t", 1>>
    ELSE IF id[1] = "nan" THEN <<"t", 2>>
    ELSE id

\* a === b
StrictEq(a, b) == a = b /\ a[1] # "nan"

IsNaN(id) == id[1] = "nan"

\* ------------------------------------------------------------ characters
Lower == {"a"}
Upper == {"A"}
Space == {" "}
Alphabet == Lower \cup Upper \cup Space

ToUpperChar(c) == IF c = "a" THEN "A" ELSE c

RECURSIVE StripSpaces(_)
StripSpaces(s) ==
    IF s = <<>> THEN <<>>
    ELSE IF Head(s) \in Space THEN StripSpaces(Tail(s))
    ELSE <<Head(s)>> \o StripSpaces(Tail(s))

ToUpperCase(s) == [i \in 1..Len(s) |-> ToUpperChar(s[i])]

RECURSIVE Trim(_)
Trim(s) ==
    IF s = <<>> THEN <<>>
    ELSE IF Head(s) \in Space THEN Trim(Tail(s))
    ELSE IF s[Len(s)] \in Space THEN Trim(SubSeq(s, 1, Len(s) - 1))
    ELSE s

\* normalizeRegistration(registration), registration an optional string:
\* registration ? registration.toUpperCase().replace(/\s+/g, '') : ''
normalizeRegistration(registration) ==
    IF Has(registration) /\ Val(registration) # <<>>
    THEN StripSpaces(ToUpperCase(Val(registration)))
    ELSE <<>>

\* c.registration || ''
OrEmpty(o) == IF Has(o) /\ Val(o) # <<>> THEN o ELSE Some(<<>>)


\* ------------------------------------------------------------------ state
VARIABLES
    engine,     \* availability of the primary engine in this session
    db,         \* let db: the connection handle, 0 for null
    openRequests, \* the indexedDB.open requests made so far, in order
    localStorageOk, \* localStorage can be read and written in this session
    now,        \* the clock
    idb,        \* object store 'cars' of CarToolsDB, in key order
    nextKey,    \* key generator of the object store 'cars'
    lsCars,     \* localStorage item 'carDetailsEntries' (optional)
    idbLogs,    \* object store 'logs', in key order
    lsLogs,     \* localStorage item 'carLogEntries' (optional)
    nextLogKey, \* key generator of the object store 'logs'
    last,       \* the store call that ended last, with the content before it;
                \* on the page, what importData reported last
    ops,        \* calls issued so far
    mig,        \* migrateLogsToCars: position, locals
    run,        \* how many times migrateLogsToCars has been started
    hist,       \* content before the migration and after its first run
    allCars,    \* let allCars: the records in memory
    shown,      \* ids of the cards / rows rendered by the last displayCars
    currentEditingCarId,
    formOpen,   \* carDetailsForm is displayed
    form,       \* values of the form fields
    saveTimeout, \* let saveTimeout: the handle of the last auto-save timer
    timers,     \* the timers set and neither fired nor cleared: the handle, and
                \* the id the form was bound to when the timer was set
    ready,      \* setupEventListeners has run
    tasks,      \* async handlers awaiting a store request, oldest request first
    events,     \* user events and ticks of the clock so far
    created,    \* for each record created: by which handler, beside a duplicate?
    firstTs,    \* for each id ever persisted, the timestamp it was first stored with
    currentFilters, \* let currentFilters: star, flag, transmission, fuelType
    currentSort,    \* let currentSort: column, direction
    searchInput,    \* value of the search box
    filteredCars,   \* the records displayCars rendered last, in order
    idbInputs,  \* object store 'inputs': entries {key, value}
    lsInputs,   \* localStorage item 'carToolInputs'
    regInput,   \* value of registrationInput
    urlInput,   \* value of autotraderUrlInput
    issued,     \* for each key, the value of the save issued last
    saveFailed  \* an InputStorage.save has rejected

inputVars == <<idbInputs, lsInputs, regInput, urlInput, issued, saveFailed>>
viewVars == <<currentFilters, currentSort, searchInput, filteredCars, inputVars>>
storeVars == <<idb, nextKey, lsCars, idbLogs, lsLogs>>
migVars == <<mig, run, hist>>
appVars == <<allCars, shown, currentEditingCarId, formOpen, form, saveTimeout, timers, ready,
             tasks, events, created, firstTs>>
vars == <<viewVars, engine, db, openRequests, localStorageOk, nextLogKey, now, idb, nextKey, lsCars, idbLogs, lsLogs, last, ops, mig, run, hist,
          allCars, shown, currentEditingCarId, formOpen, form, saveTimeout, timers, ready,
          tasks, events, created, firstTs>>

\* A record of the collection.  price stands for the optional numeric form
\* fields (price, mileage, engineSize, insuranceGroup, rating), which the
\* code treats alike.
Car(id, registration, websiteLink, timestamp, starred, flagged, price) ==
    [id |-> id, registration |-> registration, websiteLink |-> websiteLink,
     timestamp |-> timestamp, starred |-> starred, flagged |-> flagged,
     price |-> price]

NoCar == Car(Undef, None, None, None, None, None, None)

\* let currentFilters = { star: 'all', flag: 'all', transmission: 'all', fuelType: 'all' }
NoFilters == [star |-> "all", flag |-> "all", transmission |-> "all", fuelType |-> "all"]

\* let currentSort = { column: null, direction: 'asc' }
NoSort == [column |-> "null", direction |-> "asc"]

\* Nothing saved by InputStorage yet, both input boxes empty.
NoneIssued == [key \in {"registration", "autotraderUrl"} |-> None]

InputsIdle ==
    /\ idbInputs = {} /\ lsInputs = None
    /\ regInput = "" /\ urlInput = ""
    /\ issued = NoneIssued /\ saveFailed = FALSE

\* The list as the page shows it before anything is loaded.
ViewIdle ==
    /\ currentFilters = NoFilters /\ currentSort = NoSort
    /\ searchInput = <<>> /\ filteredCars = <<>>
    /\ InputsIdle

\* The form after clearForm(): every field ''.
EmptyForm == [registration |-> <<>>, price |-> None, websiteLink |-> ""]

\* The call of the store-level caller that ended last: none yet.
NoCall == [op |-> "none", call |-> "none", failed |-> FALSE, car |-> NoCar,
           id |-> Undef, ret |-> Undef, result |-> <<>>, time |-> 0,
           idb |-> <<>>, ls |-> None]

\* The outcomes one request to the primary engine can have: indexedDB.open
\* or the request succeeds (TRUE) or fires onerror (FALSE).
PrimaryOutcomes ==
    IF engine = "up" THEN {TRUE}
    ELSE IF engine = "down" THEN {FALSE}
    ELSE BOOLEAN

\* ------------------------------------------------- IndexedDB object store
\* Key order of IndexedDB: numbers before strings, each by value.
KeyLess(a, b) ==
    \/ a[1] = "n" /\ b[1] # "n"
    \/ a[1] = b[1] /\ a[2] < b[2]
    \/ a[1] = "s" /\ b[1] = "t"

\* store.put(item), item.id a valid key: replaces the record under that key
\* or inserts it.
ObjectStorePut(store, item) ==
    SelectSeq(store, LAMBDA c : KeyLess(c.id, item.id))
        \o <<item>> \o SelectSeq(store, LAMBDA c : KeyLess(item.id, c.id))

\* The key generator after a record was stored under an explicit key.
BumpKey(key, id) ==
    IF id[1] = "n" /\ id[2] >= key THEN id[2] + 1 ELSE key

\* store.delete(key): removes the record under exactly that key; a key that
\* is not in the store is no error.
ObjectStoreDelete(store, key) ==
    SelectSeq(store, LAMBDA c : c.id # key)

\* ------------------------------------------------------------- CarStorage
\* stored ? JSON.parse(stored) : []
ParseStored(item) == IF Has(item) THEN Val(item) ELSE <<>>

\* CarStorage.getAll(), ok the outcome of getAllFromStore.
CarGetAll(ok) == IF ok THEN idb ELSE ParseStored(lsCars)

\* cars.findIndex(c => c.id === id); 0 stands for -1.
FindIndex(cars, id) ==
    IF \E i \in 1..Len(cars) : StrictEq(cars[i].id, id)
    THEN CHOOSE i \in 1..Len(cars) :
            /\ StrictEq(cars[i].id, id)
            /\ \A j \in 1..(i - 1) : ~StrictEq(cars[j].id, id)
    ELSE 0

\* CarStorage.save, the try block with the primary engine answering: the
\* new object store, key generator, the caller's object and the result.
SavePrimary(car, t) ==
    IF Truthy(car.id)
    THEN [idb |-> ObjectStorePut(idb, car), nextKey |-> BumpKey(nextKey, car.id),
          car |-> car, ret |-> car.id]
    ELSE LET stamped == [car EXCEPT !.timestamp = Some(t)]
         IN  [idb |-> ObjectStorePut(idb, [stamped EXCEPT !.id = Num(nextKey)]),
              nextKey |-> nextKey + 1, car |-> stamped, ret |-> Num(nextKey)]

\* CarStorage.save, the catch block: cars is what this.getAll() returned.
SaveFallback(car, cars, t) ==
    IF Truthy(car.id)
    THEN LET index == FindIndex(cars, car.id)
         IN  [ls |-> Some(IF index # 0 THEN [cars EXCEPT ![index] = car] ELSE cars),
              car |-> car, ret |-> car.id]
    ELSE LET made == [car EXCEPT !.id = Num(TimeBase + t), !.timestamp = Some(t)]
         IN  [ls |-> Some(Append(cars, made)), car |-> made, ret |-> made.id]

\* CarStorage.delete, the filter of the localStorage fallback:
\* c.id !== id && c.id !== parseInt(id, 10) && String(c.id) !== String(id)
DeleteFilter(cars, id) ==
    SelectSeq(cars, LAMBDA c :
        /\ ~StrictEq(c.id, id)
        /\ ~StrictEq(c.id, ParseInt(id))
        /\ ~StrictEq(StringOf(c.id), StringOf(id)))

\* typeof id === 'string' ? parseInt(id, 10) : id
IdAsNumber(id) == IF id[1] \in {"s", "t"} THEN ParseInt(id) ELSE id


\* The whole of CarStorage.save(car) at time t: ok1 is the outcome of
\* updateInStore / addToStore, ok2 that of the getAll of the catch block.
SaveResult(car, ok1, ok2, t) ==
    IF ok1
    THEN LET p == SavePrimary(car, t)
         IN  [idb |-> p.idb, nextKey |-> p.nextKey, ls |-> lsCars,
              car |-> p.car, ret |-> p.ret]
    ELSE LET touched == IF Truthy(car.id) THEN car
                        ELSE [car EXCEPT !.timestamp = Some(t)]
             f == SaveFallback(touched, CarGetAll(ok2), t)
         IN  [idb |-> idb, nextKey |-> nextKey, ls |-> f.ls,
              car |-> f.car, ret |-> f.ret]

\* The whole of CarStorage.delete(id), id truthy: ok1 is the outcome of the
\* first deleteFromStore, ok2 of the second (with the coerced id), ok3 of
\* the getAll of the localStorage fallback.
DeleteResult(id, ok1, ok2, ok3) ==
    IF ok1
    THEN [idb |-> ObjectStoreDelete(idb, id), ls |-> lsCars]
    ELSE IF ~IsNaN(IdAsNumber(id)) /\ ok2
    THEN [idb |-> ObjectStoreDelete(idb, IdAsNumber(id)), ls |-> lsCars]
    ELSE [idb |-> idb, ls |-> Some(DeleteFilter(CarGetAll(ok3), id))]

\* CarStorage.clear()
ClearResult(ok) ==
    IF ok THEN [idb |-> <<>>, ls |-> lsCars] ELSE [idb |-> idb, ls |-> None]

\* The fallback of a call throws when localStorage cannot be used
\* (getItem / setItem / removeItem throw), and the call rejects.
SaveRejectsAlways(ok1) == ~ok1

SaveRejects(ok1) == ~ok1 /\ ~localStorageOk

\* CarStorage.delete: the second deleteFromStore (ok2) is awaited only for an
\* id that is a number or encodes one.
DeleteRejects(id, ok1, ok2) ==
    ~ok1 /\ ~(~IsNaN(IdAsNumber(id)) /\ ok2) /\ ~localStorageOk

ClearRejects(ok) == ~ok /\ ~localStorageOk

GetAllRejects(ok) == ~ok /\ ~localStorageOk

\* ------------------------------------------------------------ LogStorage
Log(id, url, registration, timestamp) ==
    [id |-> id, url |-> url, registration |-> registration, timestamp |-> timestamp]

\* LogStorage.getAll()
LogGetAll(ok) == IF ok THEN idbLogs ELSE ParseStored(lsLogs)

\* LogStorage.clear()
LogClearResultLocalOnly(ok) == [idb |-> idbLogs, ls |-> None]

LogClearResult(ok) ==
    IF ok THEN [idb |-> <<>>, ls |-> lsLogs] ELSE [idb |-> idbLogs, ls |-> None]

\* ------------------------------------------------------ migrateLogsToCars
\* failed: the catch block of migrateLogsToCars has run.
MigIdle == [pc |-> "idle", logs |-> <<>>, seen |-> {}, i |-> 0, migrated |-> 0,
            failed |-> FALSE]

\* before: the legacy logs of either tier when the run in hand started.
NoHist == [cars |-> <<>>, logs |-> <<>>, after1 |-> <<>>, made1 |-> 0,
           before |-> <<<<>>, <<>>>>]

\* The collections as this session's getAll returns them, the engine being
\* up or down for the whole session.
Records == CarGetAll(engine = "up")
Logs == LogGetAll(engine = "up")

\* new Set(existingCars.map(c => normalizeRegistration(c.registration || '')))
RegistrationSet(cars) ==
    {normalizeRegistration(OrEmpty(cars[k].registration)) : k \in 1..Len(cars)}

\* if (reg && !existingRegistrations.has(reg))
ShouldMigrateNoDedup(reg, seen) == reg # <<>>

ShouldMigrate(reg, seen) == reg # <<>> /\ reg \notin seen

\* { registration: reg, websiteLink: log.url || '', timestamp: log.timestamp || now }
MigratedCar(log, reg, t) ==
    Car(Undef, Some(reg),
        IF Has(log.url) THEN log.url ELSE Some(""),
        IF Has(log.timestamp) THEN log.timestamp ELSE Some(t),
        None, None, None)

\* catch (error) { console.error('Error migrating logs:', error); } and the
\* function returns.
MigCaught(m) == [m EXCEPT !.pc = "done", !.failed = TRUE]

\* migrateLogsToCars is called: const logs = await LogStorage.getAll();
\* if (logs.length === 0) return;
MigStart ==
    \E ok \in PrimaryOutcomes :
        LET logs == LogGetAll(ok)
        IN  /\ mig.pc \in {"idle", "done"}
            /\ run < 2
            /\ run' = run + 1
            /\ mig' = IF GetAllRejects(ok) THEN MigCaught(MigIdle)
                       ELSE [MigIdle EXCEPT !.logs = logs,
                                !.pc = IF Len(logs) = 0 THEN "done" ELSE "cars"]
            /\ hist' = IF run = 0 /\ (Len(logs) = 0 \/ GetAllRejects(ok))
                       THEN [hist EXCEPT !.after1 = Records, !.made1 = 0,
                                         !.before = <<idbLogs, lsLogs>>]
                       ELSE [hist EXCEPT !.before = <<idbLogs, lsLogs>>]
            /\ UNCHANGED <<appVars, viewVars, engine, db, openRequests, localStorageOk, nextLogKey, now, storeVars, last, ops>>

\* const existingCars = await CarStorage.getAll(); the set is built once
MigReadCars ==
    \E ok \in PrimaryOutcomes :
        /\ mig.pc = "cars"
        /\ mig' = IF GetAllRejects(ok) THEN MigCaught(mig)
                   ELSE [mig EXCEPT !.pc = "loop", !.i = 1,
                                    !.seen = RegistrationSet(CarGetAll(ok))]
        /\ hist' = IF GetAllRejects(ok) /\ run = 1
                   THEN [hist EXCEPT !.after1 = Records, !.made1 = 0]
                   ELSE hist
        /\ UNCHANGED <<appVars, viewVars, engine, db, openRequests, localStorageOk, nextLogKey, now, storeVars, last, ops, run>>

\* One turn of the loop over the logs, with its await CarStorage.save(car).
MigLoop ==
    \E ok1 \in PrimaryOutcomes, ok2 \in PrimaryOutcomes :
        LET log == mig.logs[mig.i]
            reg == normalizeRegistration(OrEmpty(log.registration))
            r == SaveResult(MigratedCar(log, reg, now), ok1, ok2, now)
            more == mig.i < Len(mig.logs)
        IN  /\ mig.pc = "loop"
            /\ IF ShouldMigrate(reg, mig.seen) /\ SaveRejects(ok1)
               THEN /\ mig' = MigCaught(mig)
                    /\ UNCHANGED <<idb, nextKey, lsCars>>
               ELSE IF ShouldMigrate(reg, mig.seen)
               THEN /\ idb' = r.idb
                    /\ nextKey' = r.nextKey
                    /\ lsCars' = r.ls
                    /\ mig' = [mig EXCEPT
                          !.i = mig.i + 1,
                          !.seen = IF Truthy(r.ret) THEN mig.seen \cup {reg} ELSE mig.seen,
                          !.migrated = IF Truthy(r.ret) THEN mig.migrated + 1
                                       ELSE mig.migrated,
                          !.pc = IF more THEN "loop" ELSE "clear"]
               ELSE /\ mig' = [mig EXCEPT !.i = mig.i + 1,
                                          !.pc = IF more THEN "loop" ELSE "clear"]
                    /\ UNCHANGED <<idb, nextKey, lsCars>>
            /\ hist' = IF mig'.failed /\ run = 1
                       THEN [hist EXCEPT !.after1 = Records, !.made1 = mig.migrated]
                       ELSE hist
            /\ UNCHANGED <<appVars, viewVars, engine, db, openRequests, localStorageOk, nextLogKey, now, idbLogs, lsLogs, last, ops, run>>

\* if (migrated > 0) await LogStorage.clear(); and the function returns
MigClear ==
    \E ok \in PrimaryOutcomes :
        LET r == LogClearResult(ok)
        IN  /\ mig.pc = "clear"
            /\ IF mig.migrated > 0 /\ ~ClearRejects(ok)
               THEN idbLogs' = r.idb /\ lsLogs' = r.ls
               ELSE UNCHANGED <<idbLogs, lsLogs>>
            /\ mig' = IF mig.migrated > 0 /\ ClearRejects(ok) THEN MigCaught(mig)
                       ELSE [mig EXCEPT !.pc = "done"]
            /\ hist' = IF run = 1
                       THEN [hist EXCEPT !.after1 = Records, !.made1 = mig.migrated]
                       ELSE hist
            /\ UNCHANGED <<appVars, viewVars, engine, db, openRequests, localStorageOk, nextLogKey, now, idb, nextKey, lsCars, last, ops, run>>

\* Content before the migration: legacy logs as the older version wrote
\* them and records as this program stores them (import keeps a record's
\* registration as the file has it).
LogSamples ==
    {Log(Undef, Some("u1"), Some(<<"a">>), Some(0)),
     Log(Undef, Some("u2"), Some(<<"A", " ">>), None),
     Log(Undef, Some("u1"), Some(<<" ">>), Some(0)),
     Log(Undef, None, None, None),
     Log(Undef, None, Some(<<"a", "a">>), Some(0))}

CarRegSamples == {None, Some(<<"A">>), Some(<<"a", " ", "a">>)}

SeqsUpTo(S, n) == UNION {[1..k -> S] : k \in 0..n}

\* Date.now() of earlier sessions lies before this session's.
OldBase == TimeBase - 10

\* Records numbered by the key generator / by Date.now() of earlier sessions.
WithIds(regs, base) ==
    [k \in 1..Len(regs) |->
        Car(Num(base + k), regs[k], None, Some(0), None, None, None)]

WithLogIds(logs) == [k \in 1..Len(logs) |-> [logs[k] EXCEPT !.id = Num(k)]]

InitMigrate ==
    \E regs \in SeqsUpTo(CarRegSamples, MaxCars), logs \in SeqsUpTo(LogSamples, MaxLogs) :
        /\ engine \in {"up", "down"}
        /\ now = 0
        /\ idb = IF engine = "up" THEN WithIds(regs, 0) ELSE <<>>
        /\ nextKey = IF engine = "up" THEN Len(regs) + 1 ELSE 1
        /\ lsCars = IF engine = "down" /\ regs # <<>>
                    THEN Some(WithIds(regs, TimeBase - MaxCars - 1)) ELSE None
        /\ idbLogs = IF engine = "up" THEN WithLogIds(logs) ELSE <<>>
        /\ lsLogs = IF engine = "down" /\ logs # <<>> THEN Some(logs) ELSE None
        /\ last = NoCall
        /\ localStorageOk = TRUE
        /\ db = 0
        /\ ViewIdle
        /\ openRequests = <<>>
        /\ nextLogKey = Len(idbLogs) + 1
        /\ ops = 0
        /\ mig = MigIdle
        /\ run = 0
        /\ hist = [NoHist EXCEPT
                     !.cars = IF engine = "up" THEN WithIds(regs, 0)
                              ELSE WithIds(regs, TimeBase - MaxCars - 1),
                     !.logs = logs]
    /\ allCars = <<>>
        /\ shown = {}
        /\ currentEditingCarId = Undef
        /\ formOpen = FALSE
        /\ form = EmptyForm
        /\ saveTimeout = Undef /\ timers = {}
        /\ ready = FALSE
        /\ tasks = <<>>
        /\ events = 0
        /\ created = {}
        /\ firstTs = {}

MigTick ==
    /\ now < MaxTime
    /\ mig.pc \in {"cars", "loop", "clear"}
    /\ now' = now + 1
    /\ UNCHANGED <<appVars, viewVars, engine, db, openRequests, localStorageOk, nextLogKey, storeVars, last, ops, migVars>>

NextMigrate == MigTick \/ MigStart \/ MigReadCars \/ MigLoop \/ MigClear

SpecMigrate == InitMigrate /\ [][NextMigrate]_vars

\* ------------------------------------------------ initializeCarManager
\* initializeCarManager after `await migrateLogsToCars()`: loadCars(),
\* setupEventListeners(), switchView('card'), displayCars().  loadCars
\* catches what CarStorage.getAll and localStorage.getItem throw and leaves
\* allCars = [].  (No session of StartupSamples has both an empty object
\* store that answers and records in 'carDetailsEntries', so the loop of the
\* flat-file upgrade has nothing to save here.)
MigrationReturnedUnfailed == mig.pc = "done" /\ ~mig.failed

\* `await migrateLogsToCars()` is over: the function catches every error,
\* so its promise resolves also when a Store operation has failed.
MigrationReturned == mig.pc = "done"

StartupLoad ==
    \E ok \in PrimaryOutcomes :
        /\ MigrationReturned
        /\ ~ready
        /\ allCars' = IF GetAllRejects(ok) THEN <<>>
                      ELSE IF Len(CarGetAll(ok)) = 0
                      THEN (IF localStorageOk THEN ParseStored(lsCars) ELSE <<>>)
                      ELSE CarGetAll(ok)
        /\ shown' = {allCars'[k].id : k \in 1..Len(allCars')}
        /\ ready' = TRUE
        /\ UNCHANGED <<viewVars, engine, db, openRequests, localStorageOk, nextLogKey, now, storeVars,
                       last, ops, migVars, currentEditingCarId, formOpen, form, saveTimeout, timers,
                       tasks, events, created, firstTs>>

\* Sessions in which a Store operation can fail: the engine is down, or
\* answers some requests and fails others, while localStorage throws.
StartupSamples ==
    {<<"up", TRUE>>, <<"down", TRUE>>, <<"down", FALSE>>, <<"flaky", FALSE>>}

StartupLogSamples ==
    {Log(Undef, Some("u1"), Some(<<"a">>), Some(0)),
     Log(Undef, Some("u2"), Some(<<"A", " ">>), None),
     Log(Undef, None, None, None)}

InitStartup ==
    \E regs \in SeqsUpTo(CarRegSamples, 1), logs \in SeqsUpTo(StartupLogSamples, MaxLogs),
       session \in StartupSamples :
        /\ engine = session[1]
        /\ localStorageOk = session[2]
        /\ now = 0
        /\ idb = IF engine # "down" THEN WithIds(regs, 0) ELSE <<>>
        /\ nextKey = IF engine # "down" THEN Len(regs) + 1 ELSE 1
        /\ lsCars = IF engine = "down" /\ regs # <<>>
                    THEN Some(WithIds(regs, TimeBase - MaxCars - 1)) ELSE None
        /\ idbLogs = IF engine # "down" THEN WithLogIds(logs) ELSE <<>>
        /\ lsLogs = IF engine = "down" /\ logs # <<>> THEN Some(logs) ELSE None
        /\ last = NoCall
        /\ db = 0
        /\ ViewIdle
        /\ openRequests = <<>>
        /\ nextLogKey = Len(idbLogs) + 1
        /\ ops = 0
        /\ mig = MigIdle
        /\ run = 0
        /\ hist = [NoHist EXCEPT !.cars = IF engine # "down" THEN idb ELSE ParseStored(lsCars),
                                 !.logs = logs]
        /\ allCars = <<>>
        /\ shown = {}
        /\ currentEditingCarId = Undef
        /\ formOpen = FALSE
        /\ form = EmptyForm
        /\ saveTimeout = Undef /\ timers = {}
        /\ ready = FALSE
        /\ tasks = <<>>
        /\ events = 0
        /\ created = {}
        /\ firstTs = {}

NextStartup == MigTick \/ MigStart \/ MigReadCars \/ MigLoop \/ MigClear \/ StartupLoad

\* Every await of the startup is answered: the engine fires onsuccess or
\* onerror for each request.
SpecStartup == InitStartup /\ [][NextStartup]_vars /\ WF_vars(NextStartup)

\* ------------------------------------------------- the store-level caller
\* One caller issues CarStorage and LogStorage calls one after the other,
\* awaiting each.

\* Entities handed to save: without an id, or carrying one.
SaveInputs ==
    {Car(id, Some(<<"A">>), None, ts, None, None, price) :
        id \in {Undef} \cup {Num(k) : k \in 1..2} \cup {Num(TimeBase)},
        ts \in {None, Some(0)}, price \in {None, Some(1)}}

\* Identifiers handed to delete: a number, or the string form of one.
DeleteInputs == {Num(k) : k \in 1..2} \cup {Str(1), Num(TimeBase), Txt}

Tick ==
    /\ now < MaxTime
    /\ now' = now + 1
    /\ UNCHANGED <<appVars, viewVars, engine, db, openRequests, localStorageOk, nextLogKey, storeVars, last, ops, migVars>>

\* The record of a call: op is the operation when the call resolved and
\* "rejected" when it rejected; failed says that its first request to the
\* primary engine failed.
Called(call, rejected, failed, car, id, ret, result) ==
    [op |-> IF rejected THEN "rejected" ELSE call, call |-> call, failed |-> failed,
     car |-> car, id |-> id, ret |-> ret, result |-> result, time |-> now,
     idb |-> idb, ls |-> lsCars]

CallGetAll ==
    \E ok \in PrimaryOutcomes :
        /\ ops < MaxOps
        /\ last' = Called("getAll", GetAllRejects(ok), ~ok, NoCar, Undef, Undef,
                          IF GetAllRejects(ok) THEN <<>> ELSE CarGetAll(ok))
        /\ ops' = ops + 1
        /\ UNCHANGED <<appVars, viewVars, engine, db, openRequests, localStorageOk, nextLogKey, now, storeVars, migVars>>

CallSave ==
    \E car \in SaveInputs, ok1 \in PrimaryOutcomes, ok2 \in PrimaryOutcomes :
        LET r == SaveResult(car, ok1, ok2, now)
            rejected == SaveRejects(ok1)
        IN  /\ ops < MaxOps
            /\ idb' = IF rejected THEN idb ELSE r.idb
            /\ nextKey' = IF rejected THEN nextKey ELSE r.nextKey
            /\ lsCars' = IF rejected THEN lsCars ELSE r.ls
            /\ last' = Called("save", rejected, ~ok1, car, car.id,
                              IF rejected THEN Undef ELSE r.ret, <<>>)
            /\ ops' = ops + 1
            /\ UNCHANGED <<appVars, viewVars, engine, db, openRequests, localStorageOk, nextLogKey, now, idbLogs, lsLogs, migVars>>

CallDelete ==
    \E id \in DeleteInputs, ok1 \in PrimaryOutcomes, ok2 \in PrimaryOutcomes,
       ok3 \in PrimaryOutcomes :
        LET r == DeleteResult(id, ok1, ok2, ok3)
            rejected == DeleteRejects(id, ok1, ok2)
        IN  /\ ops < MaxOps
            /\ Truthy(id)
            /\ idb' = IF rejected THEN idb ELSE r.idb
            /\ lsCars' = IF rejected THEN lsCars ELSE r.ls
            /\ last' = Called("delete", rejected, ~ok1, NoCar, id, Undef, <<>>)
            /\ ops' = ops + 1
            /\ UNCHANGED <<appVars, viewVars, engine, db, openRequests, localStorageOk, nextLogKey, now, nextKey, idbLogs, lsLogs, migVars>>

CallClear ==
    \E ok \in PrimaryOutcomes :
        LET r == ClearResult(ok)
            rejected == ClearRejects(ok)
        IN  /\ ops < MaxOps
            /\ idb' = IF rejected THEN idb ELSE r.idb
            /\ lsCars' = IF rejected THEN lsCars ELSE r.ls
            /\ last' = Called("clear", rejected, ~ok, NoCar, Undef, Undef, <<>>)
            /\ ops' = ops + 1
            /\ UNCHANGED <<appVars, viewVars, engine, db, openRequests, localStorageOk, nextLogKey, now, nextKey, idbLogs, lsLogs, migVars>>

\* LogStorage.save(log): stamps the log and adds it under a generated key;
\* the catch block pushes it onto the fallback collection.
LogSaveResult(log, ok1, ok2, t) ==
    LET stamped == [log EXCEPT !.timestamp = Some(t)]
    IN  IF ok1
        THEN [idb |-> Append(idbLogs, [stamped EXCEPT !.id = Num(nextLogKey)]),
              key |-> nextLogKey + 1, ls |-> lsLogs]
        ELSE [idb |-> idbLogs, key |-> nextLogKey,
              ls |-> Some(Append(LogGetAll(ok2), stamped))]

\* LogStorage.delete(id); the catch block filters by l.id !== id.
LogDeleteResult(id, ok1, ok2) ==
    IF ok1 THEN [idb |-> ObjectStoreDelete(idbLogs, id), ls |-> lsLogs]
    ELSE [idb |-> idbLogs,
          ls |-> Some(SelectSeq(LogGetAll(ok2), LAMBDA l : ~StrictEq(l.id, id)))]

LogInputs == {Log(Undef, Some("u1"), Some(<<"a">>), None)}

CallLogGetAll ==
    \E ok \in PrimaryOutcomes :
        /\ ops < MaxOps
        /\ last' = Called("logs.getAll", GetAllRejects(ok), ~ok, NoCar, Undef, Undef,
                          IF GetAllRejects(ok) THEN <<>> ELSE LogGetAll(ok))
        /\ ops' = ops + 1
        /\ UNCHANGED <<appVars, viewVars, engine, db, openRequests, localStorageOk, nextLogKey, now, storeVars, migVars>>

CallLogSave ==
    \E log \in LogInputs, ok1 \in PrimaryOutcomes, ok2 \in PrimaryOutcomes :
        LET r == LogSaveResult(log, ok1, ok2, now)
            rejected == SaveRejects(ok1)
        IN  /\ ops < MaxOps
            /\ idbLogs' = IF rejected THEN idbLogs ELSE r.idb
            /\ nextLogKey' = IF rejected THEN nextLogKey ELSE r.key
            /\ lsLogs' = IF rejected THEN lsLogs ELSE r.ls
            /\ last' = Called("logs.save", rejected, ~ok1, NoCar, Undef, Undef, <<>>)
            /\ ops' = ops + 1
            /\ UNCHANGED <<appVars, viewVars, engine, db, openRequests, localStorageOk, now, idb, nextKey, lsCars, migVars>>

CallLogDelete ==
    \E id \in {Num(1), Str(1)}, ok1 \in PrimaryOutcomes, ok2 \in PrimaryOutcomes :
        LET r == LogDeleteResult(id, ok1, ok2)
            rejected == SaveRejects(ok1)
        IN  /\ ops < MaxOps
            /\ idbLogs' = IF rejected THEN idbLogs ELSE r.idb
            /\ lsLogs' = IF rejected THEN lsLogs ELSE r.ls
            /\ last' = Called("logs.delete", rejected, ~ok1, NoCar, id, Undef, <<>>)
            /\ ops' = ops + 1
            /\ UNCHANGED <<appVars, viewVars, engine, db, openRequests, localStorageOk, nextLogKey, now, idb, nextKey, lsCars, migVars>>

CallLogClear ==
    \E ok \in PrimaryOutcomes :
        LET r == LogClearResult(ok)
            rejected == ClearRejects(ok)
        IN  /\ ops < MaxOps
            /\ idbLogs' = IF rejected THEN idbLogs ELSE r.idb
            /\ lsLogs' = IF rejected THEN lsLogs ELSE r.ls
            /\ last' = Called("logs.clear", rejected, ~ok, NoCar, Undef, Undef, <<>>)
            /\ ops' = ops + 1
            /\ UNCHANGED <<appVars, viewVars, engine, db, openRequests, localStorageOk, nextLogKey, now, idb, nextKey, lsCars, migVars>>

\* A session whose primary engine answers every request ("up") or none
\* ("down"), both collections empty at first.
InitStore ==
    /\ engine \in {"up", "down"}
    /\ now = 0
    /\ idb = <<>>
    /\ nextKey = 1
    /\ lsCars = None
    /\ idbLogs = <<>>
    /\ lsLogs = None
    /\ last = NoCall
    /\ localStorageOk \in BOOLEAN
    /\ db = 0
    /\ ViewIdle
    /\ openRequests = <<>>
    /\ nextLogKey = 1
    /\ ops = 0
    /\ mig = MigIdle
    /\ run = 0
    /\ hist = NoHist
    /\ allCars = <<>>
    /\ shown = {}
    /\ currentEditingCarId = Undef
    /\ formOpen = FALSE
    /\ form = EmptyForm
    /\ saveTimeout = Undef /\ timers = {}
    /\ ready = FALSE
    /\ tasks = <<>>
    /\ events = 0
    /\ created = {}
    /\ firstTs = {}

NextStore ==
    \/ Tick \/ CallGetAll \/ CallSave \/ CallDelete \/ CallClear
    \/ CallLogGetAll \/ CallLogSave \/ CallLogDelete \/ CallLogClear

SpecStore == InitStore /\ [][NextStore]_vars


\* ========================================================= the application
\* The page is one thread.  An async handler runs until it awaits a store
\* request and continues when the request has been answered.  Requests of a
\* session are answered in the order they were made: the primary engine runs
\* the transactions on one object store in the order of their creation, so
\* a request takes effect, or reads, when it is made; the fallback tier is
\* read and written when the failure of the primary request is delivered.
MaxTasks == 2
MaxEvents == 4

NoRes == [ok |-> TRUE, ret |-> Undef, cars |-> <<>>]

\* An async handler in flight: which one, the request it awaits, its locals
\* and the answer to that request; and of an import, what it started from
\* (incoming: the records of the file, seen0: the registrations of allCars,
\* empty0: the collection was empty), how many records its saves have added,
\* and whether each of its decisions to skip agreed with the collection.
NewTask(kind) ==
    [kind |-> kind, pc |-> "start", car |-> NoCar, id |-> Undef, list |-> <<>>,
     i |-> 0, seen |-> {}, n |-> 0, skipped |-> 0, res |-> NoRes,
     incoming |-> <<>>, seen0 |-> {}, empty0 |-> FALSE, added |-> 0, agreed |-> TRUE]

\* What a handler can read and write between two awaits, the handler t
\* itself, and the request it makes next (req, key).
World(t) ==
    [lsCars |-> lsCars, lsLogs |-> lsLogs, allCars |-> allCars, shown |-> shown,
     editing |-> currentEditingCarId, formOpen |-> formOpen, form |-> form,
     ready |-> ready, created |-> created, report |-> last, t |-> t, req |-> "none",
     key |-> Undef]

\* allCars.find(c => c.registration && normalizeRegistration(c.registration) === reg)
HasReg(cars, reg) ==
    \E k \in 1..Len(cars) :
        /\ Has(cars[k].registration) /\ Val(cars[k].registration) # <<>>
        /\ normalizeRegistration(cars[k].registration) = reg

\* allCars.find(c => c.id === carId); NoCar stands for undefined.
FindCar(cars, carId) ==
    IF FindIndex(cars, carId) # 0 THEN cars[FindIndex(cars, carId)] ELSE NoCar

\* displayCars(), no search term and no filter set: one card per record.
displayCars(w) ==
    [w EXCEPT !.shown = {w.allCars[k].id : k \in 1..Len(w.allCars)}]

cancelFormKeepingId(w) == [w EXCEPT !.formOpen = FALSE, !.form = EmptyForm]

cancelForm(w) ==
    [w EXCEPT !.editing = Undef, !.formOpen = FALSE, !.form = EmptyForm]

showAddCarForm(w) ==
    [w EXCEPT !.editing = Undef, !.formOpen = TRUE, !.form = EmptyForm]

editCar(w, carId) ==
    LET car == FindCar(w.allCars, carId)
    IN  IF car = NoCar THEN w
        ELSE [w EXCEPT !.editing = carId, !.formOpen = TRUE,
                       !.form = [registration |-> Val(OrEmpty(car.registration)),
                                 price |-> car.price,
                                 websiteLink |-> IF Has(car.websiteLink)
                                                 THEN Val(car.websiteLink) ELSE ""]]

extractCarDataFromForm(f) ==
    Car(Undef, Some(normalizeRegistration(Some(f.registration))),
        Some(f.websiteLink), None, None, None, f.price)

preserveCarMetadata(car, existingCar) ==
    IF existingCar # NoCar
    THEN [car EXCEPT !.timestamp = existingCar.timestamp,
                     !.starred = Some(Has(existingCar.starred) /\ Val(existingCar.starred)),
                     !.flagged = Some(Has(existingCar.flagged) /\ Val(existingCar.flagged))]
    ELSE car

\* The statements of a handler that follow its last await.
\* importData, the last alert: `Import complete! ${imported} cars imported,
\* ${skipped} cars skipped`, with what the import read and what loadCars
\* has loaded after it.
ImportComplete(w) ==
    [op |-> "imported", imported |-> w.t.n, skipped |-> w.t.skipped,
     incoming |-> w.t.incoming, seen0 |-> w.t.seen0, empty0 |-> w.t.empty0,
     added |-> w.t.added, agreed |-> w.t.agreed, after |-> w.allCars, alerts |-> 1,
     at |-> 0]

\* importData, the catch block: one alert, 'Error importing data. Please
\* check the file format and try again.'; at tells the reports of two
\* imports apart: the number of the user event.
ImportError(w) ==
    [op |-> "importError", imported |-> 0, skipped |-> 0, incoming |-> <<>>,
     seen0 |-> {}, empty0 |-> FALSE, added |-> 0, agreed |-> TRUE, after |-> w.allCars,
     alerts |-> 1, at |-> events + 1]

RejectPayloadAndReset(w) == [w EXCEPT !.report = ImportError(w), !.allCars = <<>>]

\* importData with a payload it throws on: nothing but the catch block runs.
RejectPayload(w) == [w EXCEPT !.report = ImportError(w)]

Finish(w) ==
    LET shownW == displayCars(w)
        done == [shownW EXCEPT !.t.pc = "done", !.req = "none"]
    IN  CASE w.t.kind = "init" -> [done EXCEPT !.ready = TRUE]
          [] w.t.kind = "saveCar" -> cancelForm(done)
          [] w.t.kind = "importData" -> [done EXCEPT !.report = ImportComplete(shownW)]
          [] w.t.kind = "deleteCar" ->
                IF StrictEq(w.editing, w.t.id) \/ StrictEq(w.editing, IdAsNumber(w.t.id))
                THEN cancelForm(done) ELSE done
          [] OTHER -> done

\* loadCars(): allCars = await CarStorage.getAll();
StartLoad(w) == [w EXCEPT !.t.pc = "load", !.req = "getAll"]

\* History of the flat-file upgrade of loadCars: Upgraded once its loop has
\* run to the end, and for each record saved from the flat file whether that
\* was the case already.
Upgraded == [by |-> "upgraded", id |-> Undef, dup |-> FALSE]

FromBlob(car, again) ==
    [by |-> IF again THEN "upgradeAgain" ELSE "upgrade", id |-> car.id, dup |-> FALSE]

\* loadCars(): for (const car of allCars) await CarStorage.save(car);
\* then back in the handler.
BlobLoop(w) ==
    IF w.t.i <= Len(w.t.list)
    THEN [w EXCEPT !.t.pc = "blobSave", !.t.car = w.t.list[w.t.i], !.req = "save",
                   !.created = @ \cup {FromBlob(w.t.list[w.t.i], Upgraded \in w.created)}]
    ELSE Finish([w EXCEPT !.created = @ \cup {Upgraded}])

\* loadCars(), the answer of getAll is cars.
AfterLoad(w, cars) ==
    IF Len(cars) = 0 /\ Has(w.lsCars)
    THEN BlobLoop([w EXCEPT !.allCars = ParseStored(w.lsCars),
                            !.t.list = ParseStored(w.lsCars), !.t.i = 1])
    ELSE Finish([w EXCEPT !.allCars = cars])

\* importData: the loop, from entry i of the file on.
ImportFresh(car, seen) ==
    LET reg == normalizeRegistration(OrEmpty(car.registration))
    IN  ~(reg # <<>> /\ reg \in seen)

\* The registrations of the records the collection holds now, and of those
\* this import has saved.
CurrentRegistrations(w) ==
    RegistrationSet(IF engine = "up" THEN idb ELSE ParseStored(w.lsCars))
        \cup (w.t.seen \ w.t.seen0)

ImportLoop(w) ==
    LET t == w.t
        rest == {j \in t.i..Len(t.list) : ImportFresh(t.list[j], t.seen)}
        Agrees(k) == ImportFresh(t.list[k], t.seen)
                        <=> ImportFresh(t.list[k], CurrentRegistrations(w))
    IN  IF rest = {}
        THEN StartLoad([w EXCEPT !.t.skipped = t.skipped + (Len(t.list) + 1 - t.i),
                                 !.t.agreed = @ /\ \A k \in t.i..Len(t.list) : Agrees(k),
                                 !.t.i = Len(t.list) + 1])
        ELSE LET j == CHOOSE j \in rest : \A k \in rest : j <= k
                 car == t.list[j]
             IN  [w EXCEPT !.t.skipped = t.skipped + (j - t.i), !.t.i = j,
                           !.t.agreed = @ /\ \A k \in t.i..j : Agrees(k),
                           !.t.car = [car EXCEPT !.id = Undef,
                                        !.timestamp = IF Has(car.timestamp)
                                                      THEN car.timestamp ELSE Some(now)],
                           !.t.pc = "save", !.req = "save"]

\* migrateLogsToCars: the loop, from log i on; then LogStorage.clear() and
\* back in initializeCarManager.
MigrateLoop(w) ==
    LET t == w.t
        RegOf(j) == normalizeRegistration(OrEmpty(t.list[j].registration))
        rest == {j \in t.i..Len(t.list) : ShouldMigrate(RegOf(j), t.seen)}
    IN  IF rest = {}
        THEN IF t.n > 0 THEN [w EXCEPT !.t.pc = "clearLogs", !.req = "clearLogs"]
             ELSE StartLoad(w)
        ELSE LET j == CHOOSE j \in rest : \A k \in rest : j <= k
             IN  [w EXCEPT !.t.i = j, !.t.car = MigratedCar(t.list[j], RegOf(j), now),
                           !.t.pc = "save", !.req = "save"]

\* CarStorage.save has returned ret to the handler.
AfterSave(w, ret) ==
    LET t == w.t
        reg == normalizeRegistration(OrEmpty(t.car.registration))
    IN  IF t.pc \in {"blobSave", "blobSaveFb"}
        THEN BlobLoop([w EXCEPT !.t.i = t.i + 1])
        ELSE IF t.kind = "importData"
        THEN ImportLoop([w EXCEPT !.t.seen = IF reg # <<>> THEN t.seen \cup {reg} ELSE t.seen,
                                  !.t.n = t.n + 1, !.t.i = t.i + 1])
        ELSE IF t.kind = "init"
        THEN MigrateLoop(IF Truthy(ret)
                         THEN [w EXCEPT !.t.seen = t.seen \cup {reg}, !.t.n = t.n + 1,
                                        !.t.i = t.i + 1]
                         ELSE [w EXCEPT !.t.i = t.i + 1])
        ELSE StartLoad(w)

\* A record was created by handler kind: was there already a record of the
\* same non-empty normalized registration in the collection written to?
Creation(kind, car, id, cars) ==
    [by |-> kind, id |-> id,
     dup |-> HasReg(cars, normalizeRegistration(OrEmpty(car.registration)))
             /\ normalizeRegistration(OrEmpty(car.registration)) # <<>>]

\* CarStorage.save, the catch block once its getAll has answered, and on.
SaveFallbackStep(w, cars) ==
    LET f == SaveFallback(w.t.car, cars, now)
        made == IF Truthy(w.t.car.id) THEN w.created
                ELSE w.created \cup {Creation(w.t.kind, f.car, f.ret, cars)}
    IN  AfterSave([w EXCEPT !.lsCars = f.ls, !.t.car = f.car, !.created = made,
                            !.t.added = IF Truthy(w.t.car.id) THEN @ ELSE @ + 1], f.ret)

\* The handler at the head of the queue continues with the answer to its
\* request, up to its next request or its end.
Continue(w) ==
    LET t == w.t
        res == t.res
        cars == IF res.ok THEN res.cars ELSE ParseStored(w.lsCars)
    IN  CASE t.pc \in {"save", "blobSave"} ->
                IF res.ok THEN AfterSave(w, res.ret)
                ELSE [w EXCEPT !.t.pc = IF t.pc = "save" THEN "saveFb" ELSE "blobSaveFb",
                               !.req = "getAll"]
          [] t.pc \in {"saveFb", "blobSaveFb"} -> SaveFallbackStep(w, cars)
          [] t.pc = "load" -> AfterLoad(w, cars)
          [] t.pc = "delete" ->
                IF res.ok THEN StartLoad(w)
                ELSE IF ~IsNaN(IdAsNumber(w.t.id))
                THEN [w EXCEPT !.t.pc = "deleteAgain", !.req = "delete",
                               !.key = IdAsNumber(IdAsNumber(w.t.id))]
                ELSE [w EXCEPT !.t.pc = "deleteFb", !.req = "getAll"]
          [] t.pc = "deleteAgain" ->
                IF res.ok THEN StartLoad(w)
                ELSE [w EXCEPT !.t.pc = "deleteFb", !.req = "getAll"]
          [] t.pc = "deleteFb" ->
                StartLoad([w EXCEPT !.lsCars = Some(DeleteFilter(cars, IdAsNumber(w.t.id)))])
          [] t.pc = "logs" ->
                LET logs == IF res.ok THEN res.cars ELSE ParseStored(w.lsLogs)
                IN  IF Len(logs) = 0 THEN StartLoad(w)
                    ELSE [w EXCEPT !.t.list = logs, !.t.pc = "cars", !.req = "getAll"]
          [] t.pc = "cars" ->
                MigrateLoop([w EXCEPT !.t.seen = RegistrationSet(cars), !.t.i = 1])
          [] t.pc = "clearLogs" ->
                StartLoad(IF res.ok THEN w ELSE [w EXCEPT !.lsLogs = None])

\* The ids persisted for the first time, with their timestamps.
FirstSeen(seen, cars) ==
    seen \cup {<<cars[k].id, cars[k].timestamp>> :
                 k \in {j \in 1..Len(cars) : \A p \in seen : p[1] # cars[j].id}}

\* The step ends: the request w.req is made, the primary engine answering
\* (ok) or failing, and the handler joins the queue behind rest.
Commit(w, rest, ok) ==
    LET t == w.t
        p == SavePrimary(t.car, now)
        touched == IF Truthy(t.car.id) THEN t.car ELSE [t.car EXCEPT !.timestamp = Some(now)]
        savedOk == w.req = "save" /\ ok
        res == CASE w.req = "save" -> [ok |-> ok, ret |-> IF ok THEN p.ret ELSE Undef,
                                       cars |-> <<>>]
                 [] w.req = "getAll" -> [ok |-> ok, ret |-> Undef,
                                         cars |-> IF ok THEN idb ELSE <<>>]
                 [] w.req = "logs" -> [ok |-> ok, ret |-> Undef,
                                       cars |-> IF ok THEN idbLogs ELSE <<>>]
                 [] OTHER -> [ok |-> ok, ret |-> Undef, cars |-> <<>>]
        queued == [t EXCEPT !.res = res,
                            !.added = IF savedOk /\ ~Truthy(t.car.id) THEN @ + 1 ELSE @,
                            !.car = IF w.req # "save" THEN t.car
                                    ELSE IF ok THEN p.car ELSE touched]
    IN  /\ idb' = IF savedOk THEN p.idb
                  ELSE IF w.req = "delete" /\ ok THEN ObjectStoreDelete(idb, w.key)
                  ELSE idb
        /\ nextKey' = IF savedOk THEN p.nextKey ELSE nextKey
        /\ idbLogs' = IF w.req = "clearLogs" /\ ok THEN <<>> ELSE idbLogs
        /\ lsCars' = w.lsCars
        /\ lsLogs' = w.lsLogs
        /\ allCars' = w.allCars
        /\ shown' = w.shown
        /\ currentEditingCarId' = w.editing
        /\ formOpen' = w.formOpen
        /\ form' = w.form
        /\ ready' = w.ready
        /\ last' = w.report
        /\ created' = IF savedOk /\ ~Truthy(t.car.id)
                      THEN w.created \cup {Creation(t.kind, t.car, p.ret, idb)}
                      ELSE w.created
        /\ firstTs' = FirstSeen(FirstSeen(firstTs, idb'), ParseStored(lsCars'))
        /\ tasks' = IF w.req = "none" THEN rest ELSE Append(rest, queued)

\* A synchronous handler, or one that returned before its first await.
Sync(w) == Commit([w EXCEPT !.req = "none"], tasks, TRUE)

\* An async handler is called and makes its first request.
Async(w) ==
    /\ Len(tasks) < MaxTasks
    /\ \E ok \in PrimaryOutcomes : Commit(w, tasks, ok)

otherVars == <<viewVars, engine, db, openRequests, localStorageOk, nextLogKey, now, ops, migVars>>

\* A store request is answered.
Resume ==
    /\ tasks # <<>>
    /\ \E ok \in PrimaryOutcomes : Commit(Continue(World(Head(tasks))), Tail(tasks), ok)
    /\ UNCHANGED <<otherVars, saveTimeout, timers, events>>

UserEventBeforeSetup ==
    /\ events < MaxEvents
    /\ events' = events + 1
    /\ UNCHANGED otherVars

\* A listener runs: setupEventListeners has registered it.
UserEvent ==
    /\ ready
    /\ events < MaxEvents
    /\ events' = events + 1
    /\ UNCHANGED otherVars

\* ------------------------------------------------------------------ initDB
MaxInitCalls == 4   \* initDB calls after the one made when the module loads

\* Who calls initDB: every store function does (getAllFromStore, addToStore,
\* putToStore, deleteFromStore, clearStore) on behalf of its caller, and
\* InputStorage does directly.
InitCallers == {"migrateLogsToCars", "loadInputs", "loadCars"}

OpenRequest(by) == [by |-> by, state |-> "pending", result |-> 0]

\* The open request the engine answers next: requests for one database are
\* answered in the order they were made.
FirstPending ==
    CHOOSE i \in 1..Len(openRequests) :
        /\ openRequests[i].state = "pending"
        /\ \A j \in 1..(i - 1) : openRequests[j].state # "pending"

HasPending == \E i \in 1..Len(openRequests) : openRequests[i].state = "pending"

\* initDB(): resolves with db when it is set, and otherwise calls
\* indexedDB.open.
initDB ==
    \E by \in InitCallers :
        /\ ops < MaxInitCalls
        /\ ops' = ops + 1
        /\ openRequests' = IF db # 0 THEN openRequests
                           ELSE Append(openRequests, OpenRequest(by))
        /\ UNCHANGED <<appVars, viewVars, engine, db, localStorageOk, nextLogKey, now, storeVars,
                       last, migVars>>

\* request.onsuccess: db = request.result; each open request yields a
\* connection of its own (the i-th request the connection i).
OpenSuccess ==
    /\ engine = "up"
    /\ HasPending
    /\ db' = FirstPending
    /\ openRequests' = [openRequests EXCEPT ![FirstPending] =
                            [@ EXCEPT !.state = "success", !.result = FirstPending]]
    /\ UNCHANGED <<appVars, viewVars, engine, localStorageOk, nextLogKey, now, storeVars, last, ops,
                   migVars>>

\* request.onerror: the promise rejects and db stays null.
OpenError ==
    /\ engine = "down"
    /\ HasPending
    /\ openRequests' = [openRequests EXCEPT ![FirstPending] = [@ EXCEPT !.state = "error"]]
    /\ UNCHANGED <<appVars, viewVars, engine, db, localStorageOk, nextLogKey, now, storeVars, last,
                   ops, migVars>>

\* The module has loaded: its last statement has called initDB.
InitOpen ==
    /\ engine \in {"up", "down"}
    /\ localStorageOk = TRUE
    /\ db = 0
    /\ ViewIdle
    /\ openRequests = <<OpenRequest("load")>>
    /\ now = 0
    /\ idb = <<>> /\ nextKey = 1 /\ lsCars = None
    /\ idbLogs = <<>> /\ lsLogs = None /\ nextLogKey = 1
    /\ last = NoCall
    /\ ops = 0
    /\ mig = MigIdle /\ run = 0 /\ hist = NoHist
    /\ allCars = <<>> /\ shown = {} /\ currentEditingCarId = Undef
    /\ formOpen = FALSE /\ form = EmptyForm /\ saveTimeout = Undef /\ timers = {} /\ ready = FALSE
    /\ tasks = <<>> /\ events = 0 /\ created = {} /\ firstTs = {}

NextOpen == initDB \/ OpenSuccess \/ OpenError

SpecOpen == InitOpen /\ [][NextOpen]_vars

\* -------------------------------------------------------- what users enter
QuickRegInputs == {<<"a">>, <<"a", " ", "a">>}
UrlInputs == {"u1"}
FormRegInputs == {<<>>, <<"a", " ", "a">>}
FormPriceInputs == {Some(1)}

\* Entries of an import file: an export of another collection (with ids),
\* or written by hand.
Exported == Car(Num(1), Some(<<"a", " ">>), Some("u1"), Some(0), None, None, None)
HandWritten == Car(Undef, None, None, None, None, None, Some(1))
\* Payloads importData throws on: text that JSON.parse rejects, and JSON
\* without a `cars` array.
InvalidPayloads == {"not JSON", "no cars array"}

ImportFiles == {<<>>, <<Exported, [Exported EXCEPT !.id = Num(2)]>>, <<HandWritten>>}

\* ---------------------------------------------------------------- handlers
\* quickAddCar(): click on quickAddBtn or Enter in a quick-add input.
quickAddCar ==
    /\ UserEvent
    /\ UNCHANGED <<saveTimeout, timers>>
    /\ \E regIn \in QuickRegInputs, url \in UrlInputs, editInstead \in BOOLEAN :
        LET registration == ToUpperCase(Trim(regIn))
            normalizedReg == normalizeRegistration(Some(registration))
            w == World(NewTask("quickAddCar"))
            existingCar == allCars[CHOOSE k \in 1..Len(allCars) :
                                /\ HasReg(<<allCars[k]>>, normalizedReg)
                                /\ \A j \in 1..(k - 1) : ~HasReg(<<allCars[j]>>, normalizedReg)]
            car == Car(Undef, Some(normalizeRegistration(Some(registration))), Some(url),
                       Some(now), None, None, None)
        IN  IF registration = <<>> THEN Sync(w)
            ELSE IF HasReg(allCars, normalizedReg)
            THEN IF editInstead THEN Sync(editCar(w, existingCar.id)) ELSE Sync(w)
            ELSE Async([w EXCEPT !.t.car = car, !.t.pc = "save", !.req = "save"])

\* Click on addCarBtn, or Ctrl+N.
ShowAddCarForm ==
    /\ UserEvent
    /\ UNCHANGED <<saveTimeout, timers>>
    /\ Sync(showAddCarForm(World(NewTask("showAddCarForm"))))

\* Click on the edit button of a card.
EditCar ==
    /\ UserEvent
    /\ UNCHANGED <<saveTimeout, timers>>
    /\ \E carId \in shown : Sync(editCar(World(NewTask("editCar")), carId))

\* clearTimeout(handle): the timer of that handle, if still pending, is
\* dropped; any other value of the handle does nothing.
\* (A listener without its clearTimeout would leave them all.)
clearNothing(pending, handle) == pending

clearTimeout(pending, handle) == {timer \in pending : timer.handle # handle}

\* setTimeout(callback, 2000) adds a timer under the fresh handle it returns.
setTimeout(pending, handle) ==
    pending \cup {[handle |-> handle, editing |-> currentEditingCarId]}

Handles(pending) == {timer.handle : timer \in pending}

\* The user types into a field of the form: the listener restarts the
\* auto-save timer.
FormInput ==
    /\ UserEvent
    /\ formOpen
    /\ saveTimeout' = Num(events + 1)
    /\ timers' = setTimeout(clearTimeout(timers, saveTimeout), saveTimeout')
    /\ \/ \E v \in FormRegInputs :
            Sync([World(NewTask("input")) EXCEPT !.form.registration = v])
       \/ \E v \in FormPriceInputs :
            Sync([World(NewTask("input")) EXCEPT !.form.price = v])

\* const car = extractCarDataFromForm(); car.id = currentEditingCarId;
\* preserveCarMetadata(car, allCars.find(c => c.id === currentEditingCarId));
EditedCar ==
    preserveCarMetadata([extractCarDataFromForm(form) EXCEPT !.id = currentEditingCarId],
                        FindCar(allCars, currentEditingCarId))

\* The auto-save timer fires: if (currentEditingCarId) autoSaveCar();
autoSaveCar ==
    /\ \E timer \in timers : timers' = timers \ {timer}
    /\ UNCHANGED saveTimeout
    /\ UNCHANGED <<otherVars, events>>
    /\ LET w == World(NewTask("autoSaveCar"))
       IN  IF ~Truthy(currentEditingCarId) \/ Trim(form.registration) = <<>>
           THEN Sync(w)
           ELSE Async([w EXCEPT !.t.car = EditedCar, !.t.pc = "save", !.req = "save"])

\* saveCar(): click on saveCarBtn, or Ctrl+S while the form is displayed.
saveCar ==
    /\ UserEvent
    /\ formOpen
    /\ UNCHANGED <<saveTimeout, timers>>
    /\ LET w == World(NewTask("saveCar"))
           car == IF Truthy(currentEditingCarId) THEN EditedCar
                  ELSE extractCarDataFromForm(form)
       IN  IF Trim(form.registration) = <<>> THEN Sync(w)
           ELSE Async([w EXCEPT !.t.car = car, !.t.pc = "save", !.req = "save"])

\* Click on cancelBtn, or Escape while the form is displayed.
CancelForm ==
    /\ UserEvent
    /\ formOpen
    /\ UNCHANGED <<saveTimeout, timers>>
    /\ Sync(cancelForm(World(NewTask("cancelForm"))))

\* deleteCar(carId), confirmed: click on the delete button of a card, or
\* deleteCurrentCar() from the form.
deleteCar ==
    /\ UserEvent
    /\ UNCHANGED <<saveTimeout, timers>>
    /\ \E carId \in shown \cup (IF formOpen /\ Truthy(currentEditingCarId)
                                THEN {currentEditingCarId} ELSE {}) :
        LET w == World(NewTask("deleteCar"))
        IN  IF ~Truthy(carId) \/ ~Truthy(IdAsNumber(carId)) THEN Sync(w)
            ELSE Async([w EXCEPT !.t.id = carId, !.t.pc = "delete", !.req = "delete",
                                 !.key = IdAsNumber(carId)])

\* toggleStar(carId) / toggleFlag(carId): click on the star or flag of a card.
toggle ==
    /\ UserEvent
    /\ UNCHANGED <<saveTimeout, timers>>
    /\ \E carId \in shown, field \in {"starred", "flagged"} :
        LET w == World(NewTask("toggle"))
            k == FindIndex(allCars, carId)
            car == allCars[k]
            car2 == IF field = "starred"
                    THEN [car EXCEPT !.starred = Some(~(Has(car.starred) /\ Val(car.starred)))]
                    ELSE [car EXCEPT !.flagged = Some(~(Has(car.flagged) /\ Val(car.flagged)))]
        IN  IF k = 0 THEN Sync(w)
            ELSE Async([w EXCEPT !.allCars[k] = car2, !.t.car = car2, !.t.pc = "save",
                                 !.req = "save"])

\* importData(event), confirmed, from the point where the file has been
\* read and parsed.
importData ==
    /\ UserEvent
    /\ UNCHANGED <<saveTimeout, timers>>
    /\ \/ \E file \in ImportFiles :
            Async(ImportLoop([World(NewTask("importData")) EXCEPT
                                !.t.list = file, !.t.i = 1, !.t.incoming = file,
                                !.t.seen = RegistrationSet(allCars),
                                !.t.seen0 = RegistrationSet(allCars),
                                !.t.empty0 = (idb = <<>> /\ ParseStored(lsCars) = <<>>)]))
       \/ \E payload \in InvalidPayloads :
            Sync(RejectPayload(World(NewTask("importData"))))

AppTick ==
    /\ now < MaxTime
    /\ events < MaxEvents
    /\ now' = now + 1
    /\ events' = events + 1
    /\ UNCHANGED <<viewVars, engine, db, openRequests, localStorageOk, nextLogKey, storeVars, last, ops, migVars, allCars, shown,
                   currentEditingCarId, formOpen, form, saveTimeout, timers, ready, tasks,
                   created, firstTs>>

\* The page is opened: initializeCarManager() has called migrateLogsToCars(),
\* which awaits LogStorage.getAll().  The collection is one written by
\* earlier sessions: under generated keys in the primary engine, under
\* Date.now() ids in a flat blob that an earlier session may have upgraded.
AppRegSamples == {Some(<<"A">>)}
MaxAppCars == 1

InitApp ==
    \E regs \in {r \in SeqsUpTo(AppRegSamples, MaxAppCars) :
                    \A j, k \in 1..Len(r) : j # k => r[j] # r[k]},
       logs \in SeqsUpTo({Log(Undef, Some("u1"), Some(<<"a">>), Some(0))}, 1),
       blob \in BOOLEAN, upgraded \in BOOLEAN :
        /\ engine \in {"up", "down"}
        /\ engine = "down" => ~upgraded
        /\ ~blob => ~upgraded
        /\ regs = <<>> => ~blob
        /\ now = 1
        /\ lsCars = IF blob THEN Some(WithIds(regs, OldBase)) ELSE None
        /\ idb = IF engine = "down" THEN <<>>
                 ELSE IF blob THEN (IF upgraded THEN WithIds(regs, OldBase) ELSE <<>>)
                 ELSE WithIds(regs, 0)
        /\ nextKey = IF idb = <<>> THEN 1 ELSE idb[Len(idb)].id[2] + 1
        /\ idbLogs = IF engine = "up" THEN WithLogIds(logs) ELSE <<>>
        /\ lsLogs = IF engine = "down" /\ logs # <<>> THEN Some(WithLogIds(logs)) ELSE None
        /\ last = NoCall
        /\ localStorageOk = TRUE
        /\ db = 0
        /\ ViewIdle
        /\ openRequests = <<>>
        /\ nextLogKey = Len(idbLogs) + 1
        /\ ops = 0
        /\ mig = MigIdle
        /\ run = 0
        /\ hist = NoHist
        /\ allCars = <<>>
        /\ shown = {}
        /\ currentEditingCarId = Undef
        /\ formOpen = FALSE
        /\ form = EmptyForm
        /\ saveTimeout = Undef /\ timers = {}
        /\ ready = FALSE
        /\ events = 0
        /\ created = IF upgraded THEN {Upgraded} ELSE {}
        /\ firstTs = FirstSeen(FirstSeen({}, idb), ParseStored(lsCars))
        /\ tasks = <<[NewTask("init") EXCEPT
                        !.pc = "logs",
                        !.res = [ok |-> engine = "up", ret |-> Undef,
                                 cars |-> IF engine = "up" THEN idbLogs ELSE <<>>]]>>

NextApp ==
    \/ Resume \/ AppTick
    \/ quickAddCar \/ ShowAddCarForm \/ EditCar \/ FormInput \/ autoSaveCar
    \/ saveCar \/ CancelForm \/ deleteCar \/ toggle \/ importData

SpecApp == InitApp /\ [][NextApp]_vars

\* ================================================================= claims
\* The records the migration added to the collection it found.
Created == SubSeq(Records, Len(hist.cars) + 1, Len(Records))

CreatedRegs == [k \in 1..Len(Created) |-> normalizeRegistration(OrEmpty(Created[k].registration))]

\* C1: idempotent migration.  Whatever the records and the legacy logs are
\* at first, after migrateLogsToCars has run twice in a row the collection
\* holds the records it held after the first run, the second run has
\* created none, and no two records created share a registration with each
\* other or with a record that was there before.
C1_IdempotentMigration ==
    (run = 2 /\ mig.pc = "done") =>
        /\ Records = hist.after1
        /\ mig.migrated = 0
        /\ \A j, k \in 1..Len(CreatedRegs) : j # k => CreatedRegs[j] # CreatedRegs[k]
        /\ \A k \in 1..Len(CreatedRegs) : CreatedRegs[k] \notin RegistrationSet(hist.cars)

\* C1's case: the second run has ended after a first run that created
\* records from logs of which two had the same registration.
C1_Witness ==
    /\ run = 2
    /\ mig.pc = "done"
    /\ hist.made1 > 0
    /\ \E j, k \in 1..Len(hist.logs) :
        /\ j # k
        /\ normalizeRegistration(OrEmpty(hist.logs[j].registration)) # <<>>
        /\ normalizeRegistration(OrEmpty(hist.logs[j].registration))
             = normalizeRegistration(OrEmpty(hist.logs[k].registration))

\* What the migration is to create from the logs: for each log in turn whose
\* normalized registration is non-empty and not seen, that registration
\* with the url of the log.
RECURSIVE ExpectedMigrated(_, _)
ExpectedMigrated(logs, seen) ==
    IF logs = <<>> THEN <<>>
    ELSE LET reg == normalizeRegistration(OrEmpty(Head(logs).registration))
         IN  IF reg # <<>> /\ reg \notin seen
             THEN <<<<Some(reg), IF Has(Head(logs).url) THEN Head(logs).url ELSE Some("")>>>>
                    \o ExpectedMigrated(Tail(logs), seen \cup {reg})
             ELSE ExpectedMigrated(Tail(logs), seen)

\* C2: migration result.  From a non-empty legacy-log collection and records
\* R, a completed migration leaves R followed by exactly one new record for
\* each distinct non-empty normalized registration of the logs that is not
\* in R, with the url of the first such log as websiteLink; entries with an
\* empty or seen registration are skipped; and if a record was created the
\* legacy-log collection is empty.
C2_MigrationResult ==
    (run = 1 /\ mig.pc = "done" /\ hist.logs # <<>>) =>
        /\ Len(Records) >= Len(hist.cars)
        /\ SubSeq(Records, 1, Len(hist.cars)) = hist.cars
        /\ [k \in 1..Len(Created) |-> <<Created[k].registration, Created[k].websiteLink>>]
             = ExpectedMigrated(hist.logs, RegistrationSet(hist.cars))
        /\ (Len(Created) > 0 => Logs = <<>>)

\* C2's case: a run has ended that created a record, skipped a log whose
\* registration a record had, and skipped one with an empty registration.
C2_Witness ==
    /\ run = 1
    /\ mig.pc = "done"
    /\ Len(Created) > 0
    /\ hist.cars # <<>>
    /\ \E k \in 1..Len(hist.logs) :
         normalizeRegistration(OrEmpty(hist.logs[k].registration)) \in RegistrationSet(hist.cars) \ {<<>>}
    /\ \E k \in 1..Len(hist.logs) :
         normalizeRegistration(OrEmpty(hist.logs[k].registration)) = <<>>

\* The entity save(e) is to leave in the collection: e itself when it came
\* with an id; else e stamped with the time of the save, under a fresh id.
Expected(e, t) == IF Truthy(e.id) THEN e ELSE [e EXCEPT !.timestamp = Some(t)]

SameButId(c, e) == [c EXCEPT !.id = Undef] = [e EXCEPT !.id = Undef]

Holds(cars, e, t) ==
    \E i \in 1..Len(cars) :
        /\ SameButId(cars[i], Expected(e, t))
        /\ Truthy(e.id) => cars[i].id = e.id

RemoveAt(seq, i) == SubSeq(seq, 1, i - 1) \o SubSeq(seq, i + 1, Len(seq))

\* What getAll returned before the call that resolved last.
Before(ok) == IF ok THEN last.idb ELSE ParseStored(last.ls)

\* C4: fallback transparency.  With the primary engine failing on every
\* operation, after save(e) getAll returns a collection that holds e with
\* the field values the primary path stores (the id scheme apart), for an
\* entity without an id and for one that carries an id.
C4_FallbackTransparency ==
    (engine = "down" /\ last.op = "save")
        => Holds(CarGetAll(FALSE), last.car, last.time)

\* C5: save is an update-or-insert keyed on the identifier.  After save(e)
\* with e carrying id i, getAll holds exactly one entity with id i and it
\* is e, on either tier; after save(e) with e without id, getAll holds what
\* it held before and exactly one more entity, which is e.
C5_SaveIsUpsert ==
    last.op = "save" =>
        \A ok \in PrimaryOutcomes :
            LET after == CarGetAll(ok)
                e == Expected(last.car, last.time)
            IN  IF Truthy(last.id)
                THEN /\ Cardinality({i \in 1..Len(after) : after[i].id = last.id}) = 1
                     /\ \A i \in 1..Len(after) : after[i].id = last.id => after[i] = e
                ELSE \E i \in 1..Len(after) :
                        /\ SameButId(after[i], e)
                        /\ RemoveAt(after, i) = Before(ok)

\* C6: the identifiers of the persisted records are pairwise distinct, in
\* the object store and in the fallback medium, also for identifiers
\* assigned on the fallback path by saves in quick succession.
DistinctIds(cars) ==
    \A i, j \in 1..Len(cars) : i # j => cars[i].id # cars[j].id

C6_IdsPairwiseDistinct ==
    DistinctIds(idb) /\ DistinctIds(ParseStored(lsCars))

\* C10: after delete(id), getAll returns no record whose identifier is id
\* or, for a string-encoded id, the number it encodes; every other record
\* is as before.
Matches(c, id) == c.id = id \/ (id[1] = "s" /\ c.id = ParseInt(id))

C10_DeleteRemoves ==
    last.op = "delete" =>
        \A ok \in PrimaryOutcomes :
            CarGetAll(ok) = SelectSeq(Before(ok), LAMBDA c : ~Matches(c, last.id))



\* Every record of either tier.
AllRecords ==
    {idb[k] : k \in 1..Len(idb)} \cup {ParseStored(lsCars)[k] : k \in 1..Len(ParseStored(lsCars))}

\* C3: no handler creates a record beside one of the same non-empty
\* normalized registration, however the handlers interleave.
C3_NoDuplicateCreated == \A r \in created : ~r.dup

\* C7: every record of the collection has an id and a creation timestamp.
C7_IdAndTimestamp == \A c \in AllRecords : Truthy(c.id) /\ Has(c.timestamp)

\* C8: the registration of every record is stored in normalized form.
C8_RegistrationNormalized ==
    \A c \in AllRecords :
        Has(c.registration) => Val(c.registration) = normalizeRegistration(c.registration)

\* C9: a record keeps the timestamp its id was first persisted with.
C9_TimestampKept ==
    \A c \in AllRecords : \A p \in firstTs : p[1] = c.id => c.timestamp = p[2]

\* C11: a call on the records or the legacy-log collection whose primary
\* request failed resolves whenever localStorage can be read and written,
\* getAll then with exactly the fallback content; a call rejects only when
\* the primary request failed and localStorage cannot be used.
C11_FallbackResolves ==
    /\ (last.call # "none" /\ last.failed /\ localStorageOk) => last.op # "rejected"
    /\ (last.op = "getAll" /\ last.failed) => last.result = ParseStored(lsCars)
    /\ (last.op = "logs.getAll" /\ last.failed) => last.result = ParseStored(lsLogs)
    /\ last.op = "rejected" => (last.failed /\ ~localStorageOk)

\* C11's case: the primary engine failed and getAll resolved with the
\* records the fallback medium holds.
C11_Witness ==
    /\ last.op = "getAll"
    /\ last.failed
    /\ localStorageOk
    /\ last.result # <<>>

\* C12: a delete whose identifier is present in neither tier (as it is, as
\* a number, or as a string) does not resolve: it is reported to the caller
\* as an error.
C12_DeleteAbsentIsError ==
    LET Refers(c) == \/ c.id = last.id
                     \/ c.id = ParseInt(last.id)
                     \/ StringOf(c.id) = StringOf(last.id)
        absent == /\ \A i \in 1..Len(last.idb) : ~Refers(last.idb[i])
                  /\ \A i \in 1..Len(ParseStored(last.ls)) : ~Refers(ParseStored(last.ls)[i])
    IN  (last.call = "delete" /\ absent) => last.op = "rejected"

\* C13: initDB is single-flight: indexedDB.open is called at most once in
\* the life of the page, and every caller whose open request succeeded holds
\* the same connection, the one db refers to.
C13_SingleFlightOpen ==
    /\ Len(openRequests) <= 1
    /\ \A i \in 1..Len(openRequests) :
           openRequests[i].state = "success" => openRequests[i].result = db

\* C14: the flat-file upgrade of loadCars is one-time: once it has run, no
\* later loadCars saves records from the flat file again, also when the
\* collection has become empty.
C14_UpgradeOnce == \A r \in created : r.by # "upgradeAgain"

\* C15: quickAddCar never writes a new record whose non-empty normalized
\* registration equals that of a record the collection already holds.
C15_QuickAddNoDuplicate ==
    \A r \in created : r.by = "quickAddCar" => ~r.dup

\* C16: an import of a valid payload skips a record iff its non-empty
\* normalized registration is that of a record the collection holds or of a
\* record imported before it in the batch; it saves every other record as a
\* new one; imported + skipped is the number of incoming records and imported
\* the number of records added.
C16_ImportCounts ==
    last.op = "imported" =>
        /\ last.agreed
        /\ last.imported + last.skipped = Len(last.incoming)
        /\ last.imported = last.added

\* C18: an import whose payload has no top-level `cars` array is rejected:
\* it writes no record, leaves the collection of either tier and allCars as
\* they are, and shows one error message.
C18_InvalidImportRejected ==
    [][(last'.op = "importError" /\ last' # last)
        => /\ idb' = idb
           /\ lsCars' = lsCars
           /\ allCars' = allCars
           /\ created' = created
           /\ tasks' = tasks
           /\ last'.alerts = 1]_vars

\* C18's case: an import has been rejected while the collection held a
\* record.
C18_Witness ==
    /\ last.op = "importError"
    /\ allCars # <<>>

\* C17: importing what exportData wrote (records with ids, pairwise
\* distinct) into an empty collection, no other handler adding a record,
\* yields as many records, each with the
\* values of the exported record in every field but id, timestamp included.
C17_RoundTrip ==
    (/\ last.op = "imported"
     /\ last.empty0
     /\ \A r \in created : r.by = "importData"
     /\ Cardinality(created) <= Len(last.incoming)
     /\ \A k \in 1..Len(last.incoming) : Truthy(last.incoming[k].id)
     /\ \A j, k \in 1..Len(last.incoming) :
            j # k => last.incoming[j].id # last.incoming[k].id)
        => /\ Len(last.after) = Len(last.incoming)
           /\ \A k \in 1..Len(last.incoming) :
                  [last.after[k] EXCEPT !.id = Undef] = [last.incoming[k] EXCEPT !.id = Undef]

\* The logs the migration creates a record from, in turn.
RECURSIVE MigratedLogs(_, _)
MigratedLogs(logs, seen) ==
    IF logs = <<>> THEN <<>>
    ELSE LET reg == normalizeRegistration(OrEmpty(Head(logs).registration))
         IN  IF reg # <<>> /\ reg \notin seen
             THEN <<Head(logs)>> \o MigratedLogs(Tail(logs), seen \cup {reg})
             ELSE MigratedLogs(Tail(logs), seen)

\* C19: each record a migration has created is persisted with the
\* normalized registration of its log, the url of the log as websiteLink and,
\* when the log has a timestamp, that timestamp.
C19_MigratedFields ==
    (run = 1 /\ mig.pc = "done" /\ hist.logs # <<>>) =>
        LET from == MigratedLogs(hist.logs, RegistrationSet(hist.cars))
        IN  /\ Len(Created) = Len(from)
            /\ \A k \in 1..Len(from) :
                /\ Created[k].registration
                     = Some(normalizeRegistration(OrEmpty(from[k].registration)))
                /\ Has(from[k].url) => Created[k].websiteLink = from[k].url
                /\ Has(from[k].timestamp) => Created[k].timestamp = from[k].timestamp

\* C20: after a run of migrateLogsToCars that found legacy logs and ran to
\* its end, the legacy-log collection is empty, also when every entry was
\* skipped.
C20_LogsConsumed ==
    (mig.pc = "done" /\ run >= 1 /\ hist.logs # <<>>) => Logs = <<>>

\* C21: when a Store operation fails during the migration, migrateLogsToCars
\* returns with the legacy logs of both tiers as they were when it started,
\* and initializeCarManager goes on to loadCars and the first rendering.
C21_FailedMigrationLeavesLogs ==
    /\ []((mig.pc = "done" /\ mig.failed) => <<idbLogs, lsLogs>> = hist.before)
    /\ ((mig.pc = "done" /\ mig.failed) ~> ready)

\* C21's case: the migration has created a record, a later Store operation
\* of it has failed, and the page has been rendered.
C21_Witness ==
    /\ mig.pc = "done"
    /\ mig.failed
    /\ mig.migrated > 0
    /\ ready

\* C22: migrateLogsToCars runs once in a session, and it is over, with the
\* records it saves written and the legacy logs cleared, before loadCars
\* reads the collection and before the first displayCars: until the page is
\* ready the only handler is initializeCarManager, while it migrates nothing
\* has been loaded or shown, and when it loads after creating a record the
\* legacy logs are gone.
C22_MigrationBeforeLoad ==
    LET inits == {k \in 1..Len(tasks) : tasks[k].kind = "init"}
    IN  /\ ~ready => (Len(tasks) = 1 /\ inits = {1})
        /\ ready => inits = {}
        /\ \A k \in inits :
            /\ tasks[k].pc \in {"logs", "cars", "save", "saveFb", "clearLogs"}
                 => (allCars = <<>> /\ shown = {})
            /\ (tasks[k].pc = "load" /\ tasks[k].n > 0)
                 => (idbLogs = <<>> /\ ParseStored(lsLogs) = <<>>)

\* C22's case: the page is ready after a migration that created a record.
C22_Witness ==
    /\ ready
    /\ \E r \in created : r.by = "init"

\* The edit state: Idle, or Editing a new entry (no id bound) or a record.
Idle == ~formOpen /\ currentEditingCarId = Undef
Editing == formOpen

\* The handler at the head of the queue ends with this step.
Completes(kind) ==
    /\ tasks # <<>>
    /\ Head(tasks).kind = kind
    /\ tasks' = Tail(tasks)

C24_AutoSaveIsUpdate ==
    [][/\ autoSaveCar => Len(idb') <= Len(idb)
       /\ (tasks # <<>> /\ Head(tasks).kind = "autoSaveCar" /\ Head(tasks).pc = "saveFb")
            => Len(ParseStored(lsCars')) <= Len(ParseStored(lsCars))
       /\ (autoSaveCar /\ ~Truthy(currentEditingCarId))
            => UNCHANGED <<idb, lsCars, tasks>>]_vars

\* C25: every field edit cancels the pending auto-save timer and starts a
\* new one, so at most one timer is pending; the timer that fires is the one
\* of the last edit, it is the only one, and with an id bound and a
\* registration in the form it issues exactly one write.
C25_Debounce ==
    /\ [](Cardinality(timers) <= 1)
    /\ [][/\ FormInput => (saveTimeout' \notin Handles(timers) /\ Handles(timers') = {saveTimeout'})
          /\ autoSaveCar => (Handles(timers) = {saveTimeout} /\ timers' = {})
          /\ (autoSaveCar /\ Truthy(currentEditingCarId) /\ Trim(form.registration) # <<>>)
               => /\ Len(tasks') = Len(tasks) + 1
                  /\ tasks'[Len(tasks')].kind = "autoSaveCar"
                  /\ tasks'[Len(tasks')].pc \in {"save", "saveFb"}
          /\ timers' # timers => (FormInput \/ autoSaveCar)]_vars

\* The registration and the price have been edited, the timer has fired once
\* and its write is in flight.
C25_Witness ==
    /\ timers = {} /\ Truthy(saveTimeout)
    /\ form.registration = <<"a", " ", "a">> /\ form.price = Some(1)
    /\ Cardinality({k \in 1..Len(tasks) : tasks[k].kind = "autoSaveCar"}) = 1
    /\ \E k \in 1..Len(tasks) : tasks[k].kind = "autoSaveCar" /\ tasks[k].car.price = Some(1)

\* C26: whenever quickAddCar, saveCar, autoSaveCar, toggleStar, toggleFlag,
\* deleteCar or importData has completed, allCars equals what
\* CarStorage.getAll returns at that point.
WritingHandlers == {"quickAddCar", "saveCar", "autoSaveCar", "toggle", "deleteCar", "importData"}

C26_AllCarsInSync ==
    [][(\/ \E kind \in WritingHandlers : Completes(kind)
        \/ (quickAddCar \/ saveCar \/ autoSaveCar \/ toggle \/ deleteCar \/ importData)
              /\ tasks = <<>> /\ tasks' = <<>>)
         => allCars' = (IF engine = "up" THEN idb' ELSE ParseStored(lsCars'))]_vars

\* ------------------------------------------ search, filters and sorting
MaxViewCars == 3

\* A record as the list reads it.
ViewCar(id, registration, spec, comments, contact, rating, starred, flagged,
        transmission, fuelType, price, timestamp) ==
    [id |-> id, registration |-> registration, spec |-> spec, comments |-> comments,
     contact |-> contact, rating |-> rating, starred |-> starred, flagged |-> flagged,
     transmission |-> transmission, fuelType |-> fuelType, price |-> price,
     timestamp |-> timestamp]

ToLowerChar(c) == IF c = "A" THEN "a" ELSE IF c = "B" THEN "b" ELSE c

toLowerCase(s) == [i \in 1..Len(s) |-> ToLowerChar(s[i])]

\* s.includes(t)
includes(s, t) == \E i \in 0..(Len(s) - Len(t)) : SubSeq(s, i + 1, i + Len(t)) = t

\* String(n) of a rating
String(n) == CASE n = 0 -> <<"0">> [] n = 1 -> <<"1">> [] n = 2 -> <<"2">>
               [] n = 3 -> <<"3">> [] n = 4 -> <<"4">> [] n = 5 -> <<"5">>

\* car.field && car.field.toLowerCase().includes(searchLower)
TextMatches(field, searchLower) ==
    Has(field) /\ Val(field) # <<>> /\ includes(toLowerCase(Val(field)), searchLower)

\* (An absent rating only.)
RatingPresent(rating) == Has(rating)

\* car.rating, as a condition
RatingTruthy(rating) == Has(rating) /\ Val(rating) # 0

\* car.rating && String(car.rating).includes(searchLower)
RatingMatches(rating, searchLower) ==
    RatingTruthy(rating) /\ includes(String(Val(rating)), searchLower)

\* The callback of the search filter.
SearchKeeps(car, searchTerm) ==
    LET searchLower == toLowerCase(searchTerm)
    IN  \/ TextMatches(car.registration, searchLower)
        \/ TextMatches(car.spec, searchLower)
        \/ TextMatches(car.comments, searchLower)
        \/ TextMatches(car.contact, searchLower)
        \/ RatingMatches(car.rating, searchLower)

\* const isStarred = car.starred === true;
\* return currentFilters.star === 'starred' ? isStarred : !isStarred;
StarKeeps(car, star) ==
    \/ star = "all"
    \/ LET isStarred == car.starred = Some(TRUE)
       IN  IF star = "starred" THEN isStarred ELSE ~isStarred

FlagKeeps(car, flag) ==
    \/ flag = "all"
    \/ LET isFlagged == car.flagged = Some(TRUE)
       IN  IF flag = "flagged" THEN isFlagged ELSE ~isFlagged

\* car.transmission === currentFilters.transmission, and the same for fuelType
ExactKeeps(field, value) == value = "all" \/ field = Some(value)

FilterKeeps(car, filters) ==
    /\ StarKeeps(car, filters.star)
    /\ FlagKeeps(car, filters.flag)
    /\ ExactKeeps(car.transmission, filters.transmission)
    /\ ExactKeeps(car.fuelType, filters.fuelType)

NumericColumns == {"price", "mileage", "engineSize", "insuranceGroup", "rating", "year"}

\* a[column]; the records of the model carry price, rating and registration.
Column(car, column) ==
    CASE column = "price" -> car.price
      [] column = "rating" -> car.rating
      [] column = "registration" -> car.registration

\* (A missing value ordered below every number.)
MissingLowest(value) == IF Has(value) THEN Val(value) ELSE 0 - 9

\* if (aVal == null) aVal = ''; aVal = aVal === '' ? 0 : parseFloat(aVal) || 0;
NumericValue(value) == IF Has(value) THEN Val(value) ELSE 0

\* Collation of the characters of the model.
CharRank(c) == CASE c = " " -> 0 [] c = "0" -> 1 [] c = "5" -> 2 [] c = "a" -> 3 [] c = "b" -> 4

\* a.localeCompare(b) of lower-cased strings
RECURSIVE localeCompare(_, _)
localeCompare(a, b) ==
    IF a = <<>> /\ b = <<>> THEN 0
    ELSE IF a = <<>> THEN 0 - 1
    ELSE IF b = <<>> THEN 1
    ELSE IF CharRank(Head(a)) # CharRank(Head(b)) THEN CharRank(Head(a)) - CharRank(Head(b))
    ELSE localeCompare(Tail(a), Tail(b))

\* String(aVal).toLowerCase(), aVal '' when null
StringValue(value) == IF Has(value) THEN toLowerCase(Val(value)) ELSE <<>>

\* The comparator of applySorting.
SortCompare(a, b, column, direction) ==
    IF column \in NumericColumns
    THEN IF direction = "asc"
         THEN NumericValue(Column(a, column)) - NumericValue(Column(b, column))
         ELSE NumericValue(Column(b, column)) - NumericValue(Column(a, column))
    ELSE IF direction = "asc"
         THEN localeCompare(StringValue(Column(a, column)), StringValue(Column(b, column)))
         ELSE localeCompare(StringValue(Column(b, column)), StringValue(Column(a, column)))

\* (The comparator the other way round: oldest first.)
OldestFirst(a, b) == NumericValue(a.timestamp) - NumericValue(b.timestamp)

\* a.timestamp ? new Date(a.timestamp) : new Date(0); return timeB - timeA;
DefaultCompare(a, b) == NumericValue(b.timestamp) - NumericValue(a.timestamp)

Compare(a, b, sort) ==
    IF sort.column # "null" THEN SortCompare(a, b, sort.column, sort.direction)
    ELSE DefaultCompare(a, b)

\* Array.prototype.sort is stable: x goes before the first record that
\* compares greater.
RECURSIVE InsertStable(_, _, _)
InsertStable(sorted, x, sort) ==
    IF sorted = <<>> THEN <<x>>
    ELSE IF Compare(Head(sorted), x, sort) > 0 THEN <<x>> \o sorted
    ELSE <<Head(sorted)>> \o InsertStable(Tail(sorted), x, sort)

RECURSIVE SortStable(_, _)
SortStable(cars, sort) ==
    IF cars = <<>> THEN <<>>
    ELSE InsertStable(SortStable(SubSeq(cars, 1, Len(cars) - 1), sort), cars[Len(cars)], sort)

applySorting(cars, column, direction) ==
    SortStable(cars, [column |-> column, direction |-> direction])

applySearchAndFilters(cars, searchTerm, filters, sort) ==
    LET searched == IF searchTerm # <<>>
                    THEN SelectSeq(cars, LAMBDA car : SearchKeeps(car, searchTerm))
                    ELSE cars
        filtered == SelectSeq(searched, LAMBDA car : FilterKeeps(car, filters))
    IN  IF sort.column # "null"
        THEN applySorting(filtered, sort.column, sort.direction)
        ELSE SortStable(filtered, sort)

\* (No copy: the array of the caller itself.)
NoCopy(cars) == [items |-> cars, shared |-> TRUE]

\* [...cars]: a new array with the same records
SpreadCopy(cars) == [items |-> cars, shared |-> FALSE]

\* The array passed to applySearchAndFilters, after the call: filter()
\* returns new arrays, sort() sorts the array it is called on, and
\* applySorting sorts its own copy.
argumentAfter(cars, searchTerm, filters, sort) ==
    LET filtered == SpreadCopy(cars)
        shared == filtered.shared /\ searchTerm = <<>> /\ filters = NoFilters
    IN  IF sort.column # "null"
        THEN IF shared /\ SpreadCopy(filtered.items).shared
             THEN applySorting(cars, sort.column, sort.direction)
             ELSE cars
        ELSE IF shared THEN SortStable(cars, sort) ELSE cars

\* allCars after displayCars
allCarsAfter(cars, input, filters, sort) ==
    argumentAfter(cars, Trim(input), filters, sort)

\* displayCars(searchTerm): searchTerm || searchInput.value.trim()
displayed(cars, input, filters, sort) ==
    applySearchAndFilters(cars, Trim(input), filters, sort)

\* (A sortTable that never flips.)
sortAscending(sort, column) == [column |-> column, direction |-> "asc"]

\* sortTable(column), the new currentSort
sortTableState(sort, column) ==
    IF sort.column = column
    THEN [sort EXCEPT !.direction = IF sort.direction = "asc" THEN "desc" ELSE "asc"]
    ELSE [column |-> column, direction |-> "asc"]

\* What the user can enter and choose.
SearchInputs == {<<>>, <<"a">>, <<"A">>, <<"0">>, <<" ", "5">>}
FilterValues ==
    [star |-> {"all", "starred", "unstarred"}, flag |-> {"all", "flagged", "unflagged"},
     transmission |-> {"all", "Manual", "Automatic"}, fuelType |-> {"all", "Petrol"}]
Columns == {"price", "rating", "registration"}

\* The records a collection is drawn from.
ViewSamples ==
    { ViewCar(Num(1), Some(<<"A", "a">>), None, None, None, Some(5), Some(TRUE), None,
              Some("Manual"), Some("Petrol"), Some(2), Some(1)),
      ViewCar(Num(2), Some(<<"b">>), Some(<<"A">>), None, None, Some(0), None, Some(TRUE),
              Some("Automatic"), None, None, Some(2)),
      ViewCar(Num(3), None, None, Some(<<"a", "0">>), None, None, Some(FALSE), Some(FALSE),
              None, Some("Diesel"), Some(0 - 1), None),
      ViewCar(Num(4), Some(<<"B">>), None, None, Some(<<"5", "a">>), Some(1), Some(TRUE), Some(TRUE),
              Some("Manual"), Some("Petrol"), Some(1), Some(2)) }

Collections ==
    {cars \in UNION {[1..n -> ViewSamples] : n \in 0..MaxViewCars} :
        \A i, j \in 1..Len(cars) : i # j => cars[i] # cars[j]}

\* The operation of the list that ran last, with the sort state it found.
ViewCall(op, column) == [op |-> op, column |-> column, sort |-> currentSort]

\* loadCars has answered and displayCars has rendered the list.
InitView ==
    /\ engine = "up" /\ localStorageOk = TRUE /\ db = 0 /\ openRequests = <<>>
    /\ now = 0
    /\ idb = <<>> /\ nextKey = 1 /\ lsCars = None
    /\ idbLogs = <<>> /\ lsLogs = None /\ nextLogKey = 1
    /\ last = [op |-> "none", column |-> "null", sort |-> NoSort] /\ ops = 0
    /\ mig = MigIdle /\ run = 0 /\ hist = NoHist
    /\ allCars \in Collections
    /\ shown = {} /\ currentEditingCarId = Undef
    /\ formOpen = FALSE /\ form = EmptyForm /\ saveTimeout = Undef /\ timers = {}
    /\ ready = TRUE
    /\ tasks = <<>> /\ events = 0 /\ created = {} /\ firstTs = {}
    /\ InputsIdle
    /\ currentFilters = NoFilters /\ currentSort = NoSort /\ searchInput = <<>>
    /\ filteredCars = displayed(allCars, searchInput, currentFilters, currentSort)

viewRest == <<engine, db, openRequests, localStorageOk, nextLogKey, now, storeVars,
              ops, migVars, shown, currentEditingCarId, formOpen, form, saveTimeout,
              timers, ready, tasks, events, created, firstTs, inputVars>>

\* The user types into the search box: displayCars(this.value.trim()).
SearchInput ==
    /\ \E v \in SearchInputs : searchInput' = v
    /\ last' = ViewCall("search", "null")
    /\ filteredCars' = displayed(allCars, searchInput', currentFilters, currentSort)
    /\ allCars' = allCarsAfter(allCars, searchInput', currentFilters, currentSort)
    /\ UNCHANGED <<currentFilters, currentSort, viewRest>>

\* One of the four filters is changed: currentFilters[key] = this.value;
\* applyFilters();
FilterChange ==
    /\ \E key \in DOMAIN FilterValues : \E v \in FilterValues[key] :
          currentFilters' = [currentFilters EXCEPT ![key] = v]
    /\ last' = ViewCall("filter", "null")
    /\ filteredCars' = displayed(allCars, searchInput, currentFilters', currentSort)
    /\ allCars' = allCarsAfter(allCars, searchInput, currentFilters', currentSort)
    /\ UNCHANGED <<searchInput, currentSort, viewRest>>

\* clearFiltersBtn: every filter back to 'all', applyFilters();
ClearFilters ==
    /\ currentFilters' = NoFilters
    /\ last' = ViewCall("clearFilters", "null")
    /\ filteredCars' = displayed(allCars, searchInput, currentFilters', currentSort)
    /\ allCars' = allCarsAfter(allCars, searchInput, currentFilters', currentSort)
    /\ UNCHANGED <<searchInput, currentSort, viewRest>>

\* Click on a sortable header: sortTable(column).
sortTable ==
    /\ \E column \in Columns :
          /\ currentSort' = sortTableState(currentSort, column)
          /\ last' = ViewCall("sortTable", column)
    /\ filteredCars' = displayed(allCars, searchInput, currentFilters, currentSort')
    /\ allCars' = allCarsAfter(allCars, searchInput, currentFilters, currentSort')
    /\ UNCHANGED <<searchInput, currentFilters, viewRest>>

NextView == SearchInput \/ FilterChange \/ ClearFilters \/ sortTable

SpecView == InitView /\ [][NextView]_vars

\* The list shows the record.
Listed(car) == \E j \in 1..Len(filteredCars) : filteredCars[j] = car

\* The term is empty or the lower-cased term is a substring of the
\* lower-cased registration, spec, comments or contact, or of the string
\* form of the rating.
SearchMatches(car, term) ==
    \/ term = <<>>
    \/ \E field \in {car.registration, car.spec, car.comments, car.contact} :
          Has(field) /\ includes(toLowerCase(Val(field)), toLowerCase(term))
    \/ Has(car.rating) /\ includes(String(Val(car.rating)), toLowerCase(term))

\* C27: with every filter 'all', a record is in the result of
\* applySearchAndFilters iff the search term is empty or found in one of the
\* five fields.
C27_Search ==
    currentFilters = NoFilters =>
        \A k \in 1..Len(allCars) :
            Listed(allCars[k]) <=> SearchMatches(allCars[k], Trim(searchInput))

\* The conjunction of the four filters: star status, flag status, exact
\* transmission, exact fuelType; 'all' excludes nothing, 'unstarred' and
\* 'unflagged' take every record whose field is not true.
FilterMatches(car, filters) ==
    /\ filters.star = "starred" => car.starred = Some(TRUE)
    /\ filters.star = "unstarred" => car.starred # Some(TRUE)
    /\ filters.flag = "flagged" => car.flagged = Some(TRUE)
    /\ filters.flag = "unflagged" => car.flagged # Some(TRUE)
    /\ filters.transmission # "all" => car.transmission = Some(filters.transmission)
    /\ filters.fuelType # "all" => car.fuelType = Some(filters.fuelType)

\* C28: the result of applySearchAndFilters contains exactly the
\* search-matching records that satisfy the conjunction of the four filters.
C28_Filter ==
    /\ \A k \in 1..Len(allCars) :
          Listed(allCars[k]) <=> /\ SearchMatches(allCars[k], Trim(searchInput))
                                 /\ FilterMatches(allCars[k], currentFilters)
    /\ \A j \in 1..Len(filteredCars) : \E k \in 1..Len(allCars) : allCars[k] = filteredCars[j]
    /\ \A i, j \in 1..Len(filteredCars) : i # j => filteredCars[i] # filteredCars[j]

Reverse(s) == [i \in 1..Len(s) |-> s[Len(s) + 1 - i]]

IsPermutation(s, t) ==
    /\ Len(s) = Len(t)
    /\ \E f \in [1..Len(s) -> 1..Len(s)] :
          /\ \A i, j \in 1..Len(s) : i # j => f[i] # f[j]
          /\ \A i \in 1..Len(s) : s[i] = t[f[i]]

\* The number a record is ordered by: its value, 0 when null or missing.
OrderedAs(car, column) == IF car[column] = None THEN 0 ELSE Val(car[column])

Ordered(s, column, direction) ==
    \A i, j \in 1..Len(s) :
        i < j => IF direction = "asc"
                 THEN OrderedAs(s[i], column) <= OrderedAs(s[j], column)
                 ELSE OrderedAs(s[i], column) >= OrderedAs(s[j], column)

\* C29: sorted by a numeric column the records are ordered by the numeric
\* value, a null or missing value as 0; both directions give permutations
\* of the input, and for pairwise distinct values the descending result is
\* the reverse of the ascending one.
C29_NumericSort ==
    /\ currentSort.column \in NumericColumns =>
          Ordered(filteredCars, currentSort.column, currentSort.direction)
    /\ \A column \in Columns \cap NumericColumns :
          LET asc == applySorting(allCars, column, "asc")
              desc == applySorting(allCars, column, "desc")
          IN  /\ Ordered(asc, column, "asc") /\ Ordered(desc, column, "desc")
              /\ IsPermutation(asc, allCars) /\ IsPermutation(desc, allCars)
              /\ (\A i, j \in 1..Len(allCars) :
                     i # j => OrderedAs(allCars[i], column) # OrderedAs(allCars[j], column))
                   => desc = Reverse(asc)

\* Three records, one without a price, are listed by descending price.
C29_Witness ==
    /\ currentSort = [column |-> "price", direction |-> "desc"]
    /\ Len(filteredCars) = 3
    /\ \E i \in 1..3 : filteredCars[i].price = None
    /\ \E i \in 1..3 : OrderedAs(filteredCars[i], "price") < 0
    /\ filteredCars # allCars /\ filteredCars # Reverse(allCars)

\* C30: sortTable(c) flips the direction when c is already the sort column
\* and otherwise sets column c with direction 'asc'; no other operation
\* changes the sort state.
C30_SortState ==
    IF last.op = "sortTable"
    THEN /\ currentSort.column = last.column
         /\ currentSort.direction =
               IF last.sort.column # last.column THEN "asc"
               ELSE IF last.sort.direction = "asc" THEN "desc" ELSE "asc"
    ELSE currentSort = last.sort

\* The header of the sort column has been clicked again and the list is in
\* descending order.
C30_Witness ==
    /\ last.op = "sortTable" /\ last.sort = [column |-> "registration", direction |-> "asc"]
    /\ currentSort = [column |-> "registration", direction |-> "desc"]
    /\ Len(filteredCars) >= 2
    /\ currentFilters # NoFilters

\* C31: with no sort column set the list is in non-increasing timestamp
\* order, and every record without a timestamp comes after every record
\* that has one.
C31_DefaultOrder ==
    currentSort.column = "null" =>
        \A i, j \in 1..Len(filteredCars) :
            i < j =>
                /\ Has(filteredCars[j].timestamp) => Has(filteredCars[i].timestamp)
                /\ (Has(filteredCars[i].timestamp) /\ Has(filteredCars[j].timestamp))
                      => Val(filteredCars[i].timestamp) >= Val(filteredCars[j].timestamp)

\* Three records, one of them without a timestamp, are listed in an order
\* that is not the order of the collection.
C31_Witness ==
    /\ currentSort.column = "null"
    /\ Len(filteredCars) = 3
    /\ \E i \in 1..3 : ~Has(filteredCars[i].timestamp)
    /\ filteredCars # allCars
    /\ last.op = "search"

\* C32: the query derivation has no side effects: displayCars,
\* applySearchAndFilters and applySorting leave allCars (content and order),
\* the persisted collections and the edit state unchanged, and the filter
\* and sort state are changed by their own listeners only.
C32_QueryHasNoSideEffects ==
    [][/\ allCars' = allCars
       /\ UNCHANGED <<idb, lsCars, idbLogs, lsLogs>>
       /\ UNCHANGED <<currentEditingCarId, formOpen, form>>
       /\ SearchInput => UNCHANGED <<currentFilters, currentSort>>
       /\ (FilterChange \/ ClearFilters) => UNCHANGED currentSort
       /\ sortTable => UNCHANGED currentFilters]_vars

\* The whole collection has been rendered again, unfiltered, in an order
\* that is not its own.
C32_Witness ==
    /\ last.op = "clearFilters"
    /\ Trim(searchInput) = <<>> /\ currentFilters = NoFilters
    /\ Len(allCars) = 3 /\ Len(filteredCars) = 3
    /\ filteredCars # allCars

\* ------------------------------------------------------------ InputStorage
MaxInputEvents == 3

RegValues == {"a", "ab"}
UrlValues == {"u"}

\* store.put({ key, value }) on the store with keyPath 'key', and
\* inputs[key] = value on the parsed object
PutInput(store, key, value) ==
    {r \in store : r.key # key} \cup {[key |-> key, value |-> value]}

\* JSON.parse(localStorage.getItem('carToolInputs') || '{}')
ParseInputs(item) == IF Has(item) THEN Val(item) ELSE {}

\* InputStorage.getAll(): the entries of the object store, or of the parsed
\* item when getAllFromStore rejects.
InputGetAll == IF engine = "up" THEN idbInputs ELSE ParseInputs(lsInputs)

\* A saveInputs call whose InputStorage.save awaits the open request req.
Waiting(key, value, req) == [kind |-> "saveInputs", key |-> key, value |-> value, req |-> req]

Issue(key, value) == [issued EXCEPT ![key] = Some(value)]

\* An input event (or a click on checkScoreBtn / cleanUrlBtn): saveInputs().
\* With db set both saves run to their put before any other event; with db
\* null the first save calls indexedDB.open and awaits its answer.
saveInputs ==
    /\ ops < MaxInputEvents
    /\ ops' = ops + 1
    /\ \/ \E v \in RegValues : regInput' = v /\ urlInput' = urlInput
       \/ \E v \in UrlValues : urlInput' = v /\ regInput' = regInput
    /\ IF db # 0
       THEN /\ idbInputs' = PutInput(PutInput(idbInputs, "registration", regInput'),
                                     "autotraderUrl", urlInput')
            /\ issued' = [key \in DOMAIN issued |->
                            IF key = "registration" THEN Some(regInput') ELSE Some(urlInput')]
            /\ UNCHANGED <<openRequests, tasks>>
       ELSE /\ openRequests' = Append(openRequests, OpenRequest("saveInputs"))
            /\ tasks' = Append(tasks, Waiting("registration", regInput', Len(openRequests) + 1))
            /\ issued' = Issue("registration", regInput')
            /\ UNCHANGED idbInputs
    /\ UNCHANGED <<lsInputs, saveFailed, db>>
    /\ UNCHANGED <<currentFilters, currentSort, searchInput, filteredCars, engine,
                   localStorageOk, nextLogKey, now, storeVars, last, migVars, allCars,
                   shown, currentEditingCarId, formOpen, form, saveTimeout, timers, ready,
                   events, created, firstTs>>

WaitingFor(req) == {k \in 1..Len(tasks) : tasks[k].req = req}

\* request.onsuccess of the open request answered next: db is set; the save
\* that awaited it puts its entry, and the saveInputs call goes on to its
\* second save, which finds db set.
InputOpenSuccess ==
    /\ engine = "up"
    /\ HasPending
    /\ db' = FirstPending
    /\ openRequests' = [openRequests EXCEPT ![FirstPending] =
                            [@ EXCEPT !.state = "success", !.result = FirstPending]]
    /\ IF WaitingFor(FirstPending) = {}
       THEN UNCHANGED <<idbInputs, issued, tasks>>
       ELSE LET k == CHOOSE k \in WaitingFor(FirstPending) : TRUE
                t == tasks[k]
                stored == PutInput(idbInputs, t.key, t.value)
            IN  /\ tasks' = RemoveAt(tasks, k)
                /\ IF t.key = "registration"
                   THEN /\ idbInputs' = PutInput(stored, "autotraderUrl", urlInput)
                        /\ issued' = Issue("autotraderUrl", urlInput)
                   ELSE /\ idbInputs' = stored
                        /\ UNCHANGED issued
    /\ UNCHANGED <<lsInputs, regInput, urlInput, saveFailed, ops>>
    /\ UNCHANGED <<currentFilters, currentSort, searchInput, filteredCars, engine,
                   localStorageOk, nextLogKey, now, storeVars, last, migVars, allCars,
                   shown, currentEditingCarId, formOpen, form, saveTimeout, timers, ready,
                   events, created, firstTs>>

\* request.onerror of the open request answered next: initDB rejects and the
\* save that awaited it writes the localStorage item in its catch block (or
\* rejects when localStorage throws); the saveInputs call then goes on to
\* its second save, which calls indexedDB.open again.
InputOpenError ==
    /\ engine = "down"
    /\ HasPending
    /\ LET answered == [openRequests EXCEPT ![FirstPending] = [@ EXCEPT !.state = "error"]]
       IN  IF WaitingFor(FirstPending) = {}
           THEN /\ openRequests' = answered
                /\ UNCHANGED <<lsInputs, issued, tasks, saveFailed>>
           ELSE LET k == CHOOSE k \in WaitingFor(FirstPending) : TRUE
                    t == tasks[k]
                IN  IF ~localStorageOk
                    THEN /\ saveFailed' = TRUE
                         /\ tasks' = RemoveAt(tasks, k)
                         /\ openRequests' = answered
                         /\ UNCHANGED <<lsInputs, issued>>
                    ELSE /\ lsInputs' = Some(PutInput(ParseInputs(lsInputs), t.key, t.value))
                         /\ UNCHANGED saveFailed
                         /\ IF t.key = "registration"
                            THEN /\ openRequests' = Append(answered, OpenRequest("saveInputs"))
                                 /\ tasks' = Append(RemoveAt(tasks, k),
                                                    Waiting("autotraderUrl", urlInput,
                                                            Len(openRequests) + 1))
                                 /\ issued' = Issue("autotraderUrl", urlInput)
                            ELSE /\ openRequests' = answered
                                 /\ tasks' = RemoveAt(tasks, k)
                                 /\ UNCHANGED issued
    /\ UNCHANGED <<idbInputs, regInput, urlInput, db, ops>>
    /\ UNCHANGED <<currentFilters, currentSort, searchInput, filteredCars, engine,
                   localStorageOk, nextLogKey, now, storeVars, last, migVars, allCars,
                   shown, currentEditingCarId, formOpen, form, saveTimeout, timers, ready,
                   events, created, firstTs>>

\* The scripts have loaded: the last statement of utils.js has called initDB.
InitInputs ==
    /\ engine \in {"up", "down"}
    /\ localStorageOk \in BOOLEAN
    /\ db = 0
    /\ openRequests = <<OpenRequest("load")>>
    /\ now = 0
    /\ idb = <<>> /\ nextKey = 1 /\ lsCars = None
    /\ idbLogs = <<>> /\ lsLogs = None /\ nextLogKey = 1
    /\ last = NoCall
    /\ ops = 0
    /\ mig = MigIdle /\ run = 0 /\ hist = NoHist
    /\ allCars = <<>> /\ shown = {} /\ currentEditingCarId = Undef
    /\ formOpen = FALSE /\ form = EmptyForm /\ saveTimeout = Undef /\ timers = {} /\ ready = FALSE
    /\ tasks = <<>> /\ events = 0 /\ created = {} /\ firstTs = {}
    /\ currentFilters = NoFilters /\ currentSort = NoSort
    /\ searchInput = <<>> /\ filteredCars = <<>>
    /\ InputsIdle

NextInputs == saveInputs \/ InputOpenSuccess \/ InputOpenError

SpecInputs == InitInputs /\ [][NextInputs]_vars

\* C33: once every InputStorage.save issued has resolved, InputStorage.getAll
\* holds exactly one entry per saved key, with the value of the save issued
\* last for that key.
C33_InputsUpsertByKey ==
    (tasks = <<>> /\ ~saveFailed) =>
        InputGetAll = {[key |-> key, value |-> Val(issued[key])] :
                          key \in {k \in DOMAIN issued : Has(issued[k])}}

\* The ids of the records of the collection, on either tier.
StoredIds(primary, item) ==
    {primary[k].id : k \in 1..Len(primary)}
        \cup {ParseStored(item)[k].id : k \in 1..Len(ParseStored(item))}

\* C34: a delete is not undone by a pending auto-save: when the auto-save
\* timer fires while a confirmed deleteCar(X) is awaiting the store, record X
\* is not in the collection afterwards.
C34_DeleteNotUndone ==
    [][autoSaveCar =>
          \A k \in 1..Len(tasks) :
              tasks[k].kind = "deleteCar" =>
                  \A id \in {tasks[k].id, IdAsNumber(tasks[k].id)} :
                      id \in StoredIds(idb, lsCars) \/ id \notin StoredIds(idb', lsCars')]_vars

\* ------------------------------------- the primary engine failing at times
\* The store-level caller with a primary engine whose every request either
\* succeeds or fails.
InitIntermittent ==
    /\ engine = "flaky"
    /\ now = 0
    /\ idb = <<>>
    /\ nextKey = 1
    /\ lsCars = None
    /\ idbLogs = <<>>
    /\ lsLogs = None
    /\ last = NoCall
    /\ localStorageOk \in BOOLEAN
    /\ db = 0
    /\ ViewIdle
    /\ openRequests = <<>>
    /\ nextLogKey = 1
    /\ ops = 0
    /\ mig = MigIdle
    /\ run = 0
    /\ hist = NoHist
    /\ allCars = <<>>
    /\ shown = {}
    /\ currentEditingCarId = Undef
    /\ formOpen = FALSE
    /\ form = EmptyForm
    /\ saveTimeout = Undef /\ timers = {}
    /\ ready = FALSE
    /\ tasks = <<>>
    /\ events = 0
    /\ created = {}
    /\ firstTs = {}

SpecIntermittent == InitIntermittent /\ [][NextStore]_vars

\* C35: read-your-writes under intermittent primary failure: once
\* CarStorage.save(e) has resolved, a getAll that resolves returns a
\* collection containing e, whichever tier served the save and whichever
\* serves the read.
C35_ReadYourWrites ==
    last.op = "save" =>
        \A ok \in BOOLEAN :
            ~GetAllRejects(ok) => Holds(CarGetAll(ok), last.car, last.time)

\* ------------------------------------------- a toggle beside an edit's save
\* The stored records (of either tier) that carry the id.
StoredWith(primary, item, id) ==
    {primary[k] : k \in {j \in 1..Len(primary) : primary[j].id = id}}
        \cup {ParseStored(item)[k] :
                k \in {j \in 1..Len(ParseStored(item)) : ParseStored(item)[j].id = id}}

SameButFlags(c, e) ==
    [c EXCEPT !.starred = None, !.flagged = None] = [e EXCEPT !.starred = None, !.flagged = None]

\* A step of toggleStar / toggleFlag: the click, or an answer to a request
\* the handler has made.
ToggleStep == toggle \/ (Resume /\ Head(tasks).kind = "toggle")

\* C36: toggleStar and toggleFlag change only the starred / flagged field of
\* the stored record.  Whatever other handler is in flight (a saveCar or an
\* autoSaveCar of the same record among them), a step of the toggle leaves
\* every other field of every stored record as it finds it in the store, so
\* the field values an edit's save has written stay.
C36_ToggleKeepsSavedFields ==
    [][ToggleStep =>
        \A id \in StoredIds(idb, lsCars) :
            \A c \in StoredWith(idb', lsCars', id) :
                \E e \in StoredWith(idb, lsCars, id) : SameButFlags(c, e)]_vars


\* ------------------------------------------------ the timer and its record
\* The auto-save timer fires and autoSaveCar goes on to its write.
AutoSaveWrites == autoSaveCar /\ Len(tasks') = Len(tasks) + 1

\* C37: the auto-save timer only ever writes the record the form was bound
\* to when the edit that started it was made.  A timer set while A was being
\* edited causes no write to another record B (A cancelled or saved and B
\* opened before the timer fires), and no write at all when the form is
\* bound to no record at the time it fires.
C37_TimerWritesItsRecord ==
    [][/\ AutoSaveWrites =>
            \A timer \in timers \ timers' : tasks'[Len(tasks')].car.id = timer.editing
       /\ (autoSaveCar /\ ~Truthy(currentEditingCarId)) => UNCHANGED <<idb, lsCars, tasks>>]_vars


\* ------------------------------------------------------ the save button twice
\* The explicit saves of a new entry that are still in flight (the last
\* handler of the queue apart) and have had their record created.
EarlierSaves(queue) ==
    {k \in 1..(Len(queue) - 1) : queue[k].kind = "saveCar" /\ queue[k].added > 0}

\* C38: one explicit save of a new entry creates exactly one record.  When
\* saveCar is triggered again (the button, Ctrl/Cmd+S) before the first call
\* has completed, the store gains no second record: no record is created by
\* a saveCar while an earlier saveCar that has created one is in flight.
C38_OneSaveOneRecord ==
    [][\A c \in created' \ created : c.by = "saveCar" => EarlierSaves(tasks') = {}]_vars


\* ------------------------------------------------- a toggle nothing stores
\* localStorage throws in this session (storage disabled, or full): the
\* answer the handler t awaits ends in an exception.  The catch block of
\* CarStorage.save reads and writes localStorage; loadCars reads it when
\* getAll has rejected or has returned no record.
Throws(t) ==
    /\ ~localStorageOk
    /\ \/ t.pc = "saveFb"
       \/ t.pc = "load" /\ (~t.res.ok \/ Len(t.res.cars) = 0)

\* The catch block the exception reaches: loadCars has its own
\* (allCars = []) and the handler goes on to displayCars; a rejected
\* CarStorage.save reaches the catch of the toggle, which logs.
Catch(w) ==
    IF w.t.pc = "load" THEN Finish([w EXCEPT !.allCars = <<>>])
    ELSE [w EXCEPT !.t.pc = "done", !.req = "none"]

\* A store request is answered, in a session where localStorage throws.
ResumeOrCatch ==
    /\ tasks # <<>>
    /\ \E ok \in PrimaryOutcomes :
            Commit(IF Throws(Head(tasks)) THEN Catch(World(Head(tasks)))
                   ELSE Continue(World(Head(tasks))),
                   Tail(tasks), ok)
    /\ UNCHANGED <<otherVars, saveTimeout, timers, events>>

FlagValues == {None, Some(FALSE), Some(TRUE)}

\* The page has loaded its records from the primary engine, which fails at
\* times from now on, and localStorage cannot be used.
InitFailing ==
    \E n \in 1..MaxCars, starred \in FlagValues, flagged \in FlagValues :
        /\ engine = "flaky"
        /\ localStorageOk = FALSE
        /\ idb = [k \in 1..n |-> Car(Num(k), Some(<<"A">>), None, Some(0), starred, flagged, None)]
        /\ nextKey = n + 1
        /\ lsCars = None
        /\ allCars = idb
        /\ shown = {Num(k) : k \in 1..n}
        /\ ready = TRUE
        /\ now = 1
        /\ idbLogs = <<>> /\ lsLogs = None /\ nextLogKey = 1
        /\ last = NoCall
        /\ db = 0
        /\ ViewIdle
        /\ openRequests = <<>>
        /\ ops = 0
        /\ mig = MigIdle /\ run = 0 /\ hist = NoHist
        /\ currentEditingCarId = Undef
        /\ formOpen = FALSE
        /\ form = EmptyForm
        /\ saveTimeout = Undef /\ timers = {}
        /\ tasks = <<>>
        /\ events = 0
        /\ created = {}
        /\ firstTs = FirstSeen({}, idb)

NextFailing == toggle \/ ResumeOrCatch

SpecFailing == InitFailing /\ [][NextFailing]_vars

\* CarStorage.save rejects inside toggleStar / toggleFlag, no other handler
\* being in flight.
ToggleSaveRejects ==
    /\ ResumeOrCatch
    /\ Len(tasks) = 1
    /\ Head(tasks).kind = "toggle" /\ Head(tasks).pc = "saveFb"

\* C39: state unchanged on failed toggle.  When CarStorage.save rejects
\* inside toggleStar or toggleFlag, the record in allCars is as it was before
\* the call (the in-memory value is not flipped), so that the record in
\* memory equals the record in the store.
C39_FailedToggleRestores ==
    [][ToggleSaveRejects =>
        FindCar(allCars', Head(tasks).car.id) = FindCar(idb', Head(tasks).car.id)]_vars

============================================================================
